---------------------------- MODULE Spec2Model ----------------------------
(***************************************************************************)
(* State-machine model of the AI Mockup Studio pipeline orchestrator       *)
(* (the App component: handleGenerateClick and the handlers around it) and *)
(* of the service functions it calls.                                      *)
(*                                                                         *)
(* Scheduling: the browser event loop.  A handler, or the continuation of  *)
(* an async function after an await, runs to its next await without        *)
(* interruption; React applies the queued state updates in order and       *)
(* re-renders before the next event is handled.  So each action below is   *)
(* one handler invocation or one continuation, with its setState calls     *)
(* applied in program order, and a handler invoked by the user closes over *)
(* the state committed when it is invoked.                                  *)
(***************************************************************************)
EXTENDS Integers, Sequences, FiniteSets, TLC

(***************************************************************************)
(* Bounds and program constants                                            *)
(***************************************************************************)
\* Size of the product catalogue PRODUCTS (its keys are 1..NumProducts).
NumProducts == 2

\* Object.keys(PRODUCTS).slice(0, 4): the initial selection.
InitialSelectionSize == 4

\* handleProductSelect: "if (prev.length >= 6)".
MaxSelected == 6

ProductIds == 1..NumProducts

\* Size of the catalogue in the specification of the product selector alone,
\* large enough for a seventh product to be selected, and the number of
\* setTimeout(() => setError(null), 3000) timers that may be pending at once.
CatalogueSize == 7
MaxErrorTimers == 2

Catalogue == 1..CatalogueSize

Min(a, b) == IF a < b THEN a ELSE b

(***************************************************************************)
(* Values                                                                  *)
(***************************************************************************)
\* enum Status
IDLE    == "idle"
PENDING == "pending"
SUCCESS == "success"
FAILED  == "failed"

\* null image payload; image payloads are non-empty tuples
NULL == <<>>

\* error === null
NoError == "null"

ErrNoKey      == "Please enter your Gemini API key to start."
ErrNoImage    == "Please upload a design image to start!"
ErrBadFile    == "Please paste or upload a valid image file."
ErrConvert    == "Couldn't process this image. Please try another file."
ErrMaxMockups == "You can select a maximum of 6 mockups."
ErrCritical   == "Could not process the design. Please try another image."
ErrDetails    == "Could not generate product details. Please try again."
ErrGeminiKey    == "Gemini API key is missing."
ErrPhotoroomKey == "Photoroom API key is missing."

\* err.message of a rejected collaborator call: empty, or some text
RejectMessages == {"", "backend failure"}

\* the value produced by a successful call
UploadUrl      == <<"upload">>
ClonedUrl      == <<"cloned">>
TransparentUrl == <<"transparent">>
ResizedUrl     == <<"resized">>
MockupUrl(p)   == <<"mockup", p>>

\* { status, imageUrl }
Asset(s, u) == [status |-> s, imageUrl |-> u]

\* PRODUCTS[id].name
ProductName(id) == id

\* the collaborator calls of one run: the four critical-path calls and one
\* createMockup call per product
ANALYZE  == <<"analyzeImageColor", 0>>
CLONE    == <<"cloneDesign", 0>>
REMOVEBG == <<"removeBackground", 0>>
RESIZE   == <<"resizeDesign", 0>>
MOCKUP(p) == <<"createMockup", p>>

\* the one fetch of removeBackground
FETCH == <<"fetch", 0>>

CriticalCalls == {ANALYZE, CLONE, REMOVEBG, RESIZE}
MockupCalls   == {MOCKUP(p) : p \in ProductIds}
Calls         == CriticalCalls \cup MockupCalls

VARIABLES
    uploadedImage,          \* useState<string | null>
    clonedDesign,           \* useState<ClonedDesign>
    removedBgDesign,
    resizedDesign,
    mockups,                \* useState<Mockup[]>
    isLoading,
    loadingMessage,
    error,
    selectedProducts,       \* useState<string[]>
    productDetails,
    isGeneratingDetails,
    additionalInstructions,
    mode,
    geminiApiKey,
    photoroomApiKey,
    showApiKeys,
    run,                    \* closure and locals of the handleGenerateClick in flight
    callState,              \* per collaborator call of the latest run: none,
                            \* pending, ok (resolved), err (rejected)
    issued,                 \* per collaborator call, and for the request of
                            \* removeBackground: how often the latest run has
                            \* issued it
    detailsCall,            \* the generateProductDetails promise: none, pending,
                            \* failing (rejected when it was created)
    passed,                 \* per collaborator call of the latest run: the
                            \* additionalInstructions argument it was given
    errorTimers,            \* pending setTimeout(() => setError(null), 3000)
    request,                \* a call of a function of services/ under evaluation:
                            \* its name and arguments
    reply,                  \* what that call has produced so far
    lastOp                  \* what ran last: handleGenerateClick, processImageFile,
                            \* a continuation of the run ("callback"), or one of
                            \* the configuration handlers ("config")

vars == <<uploadedImage, clonedDesign, removedBgDesign, resizedDesign, mockups,
          isLoading, loadingMessage, error, selectedProducts, productDetails,
          isGeneratingDetails, additionalInstructions, mode, geminiApiKey,
          photoroomApiKey, showApiKeys, run, callState, issued, detailsCall,
          passed, errorTimers, request, reply, lastOp>>

\* groups used in UNCHANGED
assets   == <<clonedDesign, removedBgDesign, resizedDesign, mockups>>
config   == <<selectedProducts, additionalInstructions, mode, geminiApiKey,
              photoroomApiKey>>
details  == <<productDetails, isGeneratingDetails, detailsCall>>
runState == <<run, callState, issued>>
service  == <<request, reply>>

\* no handleGenerateClick in flight
NoRun ==
    [active |-> FALSE, clonedStatus |-> IDLE, removedBgStatus |-> IDLE,
     resizedStatus |-> IDLE, selectedProducts |-> <<>>, mode |-> "cloner",
     instructionsToPass |-> "undefined", geminiApiKey |-> "",
     photoroomApiKey |-> "", uploadedImage |-> NULL]

NoCalls == [c \in Calls |-> "none"]
NoneIssued == [c \in Calls \cup {FETCH} |-> 0]
\* no call has been given instructions ("none": not called, or a call
\* without that parameter)
NonePassed == [c \in Calls |-> "none"]

\* Object.keys(PRODUCTS).slice(0, 4)
InitialSelection == [i \in 1..Min(InitialSelectionSize, NumProducts) |-> i]

\* the state of App after its first render
MountedSelecting(selection) ==
    /\ uploadedImage = NULL
    /\ clonedDesign = Asset(IDLE, NULL)
    /\ removedBgDesign = Asset(IDLE, NULL)
    /\ resizedDesign = Asset(IDLE, NULL)
    /\ mockups = <<>>
    /\ isLoading = FALSE
    /\ loadingMessage = ""
    /\ error = NoError
    /\ selectedProducts = selection
    /\ productDetails = "null"
    /\ isGeneratingDetails = FALSE
    /\ additionalInstructions = ""
    /\ mode = "cloner"
    /\ geminiApiKey \in {"", "gemini-key"}
    /\ photoroomApiKey = "sk_pr_default"
    /\ showApiKeys = (geminiApiKey = "")
    /\ run = NoRun
    /\ callState = NoCalls
    /\ issued = NoneIssued
    /\ detailsCall = "none"
    /\ passed = NonePassed
    /\ errorTimers = 0
    /\ lastOp = "mount"

Mounted == MountedSelecting(InitialSelection)

\* no call of a function of services/ is under evaluation
NoRequest == [fn |-> "none"]
NoReply == [kind |-> "none"]

Init ==
    /\ Mounted
    /\ request = NoRequest
    /\ reply = NoReply

(***************************************************************************)
(* Helpers                                                                 *)
(***************************************************************************)
\* { id, name: PRODUCTS[id].name, status, imageUrl }
Mockup(id, s, u) == [id |-> id, name |-> ProductName(id), status |-> s, imageUrl |-> u]

\* prev.includes(productId)
Includes(seq, x) == \E i \in 1..Len(seq) : seq[i] = x

\* prev.filter(id => id !== productId)
Without(seq, x) == SelectSeq(seq, LAMBDA y : y # x)

\* selectedProducts.map(id => ({ id, name, status: PENDING, imageUrl: null }))
PendingMockups(sel) == [i \in 1..Len(sel) |-> Mockup(sel[i], PENDING, NULL)]

\* Mutant of MockupSucceeded: the update maps over the array the handler closed
\* over (every item still pending) instead of the previous state.
MockupSucceededFromClosure(prev, productId, url) ==
    [i \in 1..Len(prev) |->
        IF prev[i].id = productId
        THEN [prev[i] EXCEPT !.status = SUCCESS, !.imageUrl = url]
        ELSE [prev[i] EXCEPT !.status = PENDING, !.imageUrl = NULL]]

\* prev.map(m => m.id === productId ? { ...m, status: SUCCESS, imageUrl } : m)
MockupSucceeded(prev, productId, url) ==
    [i \in 1..Len(prev) |->
        IF prev[i].id = productId
        THEN [prev[i] EXCEPT !.status = SUCCESS, !.imageUrl = url]
        ELSE prev[i]]

\* Mutant of MockupFailed: the id test is missing, every item is marked failed.
MockupFailedAll(prev, productId) ==
    [i \in 1..Len(prev) |-> [prev[i] EXCEPT !.status = FAILED]]

\* prev.map(m => m.id === productId ? { ...m, status: FAILED } : m)
MockupFailed(prev, productId) ==
    [i \in 1..Len(prev) |->
        IF prev[i].id = productId
        THEN [prev[i] EXCEPT !.status = FAILED]
        ELSE prev[i]]

\* prev.map(m => m.status === PENDING ? { ...m, status: FAILED } : m)
PendingMockupsFailed(prev) ==
    [i \in 1..Len(prev) |->
        IF prev[i].status = PENDING
        THEN [prev[i] EXCEPT !.status = FAILED]
        ELSE prev[i]]

\* err.message || fallback
MessageOr(msg, fallback) == IF msg # "" THEN msg ELSE fallback

\* Mutant of InstructionsToPass: the stored instructions are passed in
\* either mode.
InstructionsToPassAnyMode(m, instr) == instr

\* mode === 'redesign' ? additionalInstructions : undefined
InstructionsToPass(m, instr) == IF m = "redesign" THEN instr ELSE "undefined"

\* The catch block's updates of the three staged assets.  The conditions read
\* clonedDesign, removedBgDesign and resizedDesign of the handler's closure,
\* i.e. the state committed when handleGenerateClick was invoked (r), not
\* the state the run has produced since.
CatchCloned(r, cur) ==
    IF r.clonedStatus = PENDING THEN Asset(FAILED, NULL) ELSE cur
\* Mutant of CatchRemovedBg: { ...removedBgDesign, status: FAILED } keeps
\* the image of the asset.
CatchRemovedBgKeepsImage(r, cur) ==
    IF r.removedBgStatus # SUCCESS THEN [cur EXCEPT !.status = FAILED] ELSE cur

CatchRemovedBg(r, cur) ==
    IF r.removedBgStatus # SUCCESS THEN Asset(FAILED, NULL) ELSE cur
CatchResized(r, cur) ==
    IF r.resizedStatus # SUCCESS THEN Asset(FAILED, NULL) ELSE cur
CatchMockups(r, prev) ==
    IF Len(r.selectedProducts) > 0 THEN PendingMockupsFailed(prev) ELSE prev

\* Mutant of Finally: the loading message is left as it was.
FinallyKeepsMessage ==
    /\ isLoading' = FALSE
    /\ loadingMessage' = loadingMessage
    /\ run' = NoRun

\* finally { setIsLoading(false); setLoadingMessage(''); }: the handler
\* returns, and its closure is gone
Finally ==
    /\ isLoading' = FALSE
    /\ loadingMessage' = ""
    /\ run' = NoRun

\* catch (err) { ... } finally { ... } after critical-path call c rejected
CriticalFailure(c, msg) ==
    /\ callState' = [callState EXCEPT ![c] = "err"]
    /\ UNCHANGED issued
    /\ error' = MessageOr(msg, ErrCritical)
    /\ clonedDesign' = CatchCloned(run, clonedDesign)
    /\ removedBgDesign' = CatchRemovedBg(run, removedBgDesign)
    /\ resizedDesign' = CatchResized(run, resizedDesign)
    /\ mockups' = CatchMockups(run, mockups)
    /\ Finally
    /\ lastOp' = "callback"
    /\ UNCHANGED <<uploadedImage, config, details, showApiKeys, passed, errorTimers, service>>

(***************************************************************************)
(* Configuration handlers                                                  *)
(***************************************************************************)
\* onChange={(e) => setGeminiApiKey(e.target.value)}
SetGeminiApiKey ==
    /\ \E k \in {"", "gemini-key"} :
          /\ k # geminiApiKey
          /\ geminiApiKey' = k
    /\ lastOp' = "config"
    /\ UNCHANGED <<uploadedImage, assets, isLoading, loadingMessage, error,
                   selectedProducts, additionalInstructions, mode, photoroomApiKey,
                   details, showApiKeys, runState, passed, errorTimers, service>>

\* onChange={(e) => setPhotoroomApiKey(e.target.value)}
SetPhotoroomApiKey ==
    /\ \E k \in {"", "sk_pr_default"} :
          /\ k # photoroomApiKey
          /\ photoroomApiKey' = k
    /\ lastOp' = "config"
    /\ UNCHANGED <<uploadedImage, assets, isLoading, loadingMessage, error,
                   selectedProducts, additionalInstructions, mode, geminiApiKey,
                   details, showApiKeys, runState, passed, errorTimers, service>>

\* Mutant of ProductSelect: the limit is tested with > instead of >=.
ProductSelectOffByOne(productId) ==
    /\ IF Includes(selectedProducts, productId)
       THEN /\ selectedProducts' = Without(selectedProducts, productId)
            /\ UNCHANGED <<error, errorTimers>>
       ELSE IF Len(selectedProducts) > MaxSelected
            THEN /\ errorTimers < MaxErrorTimers
                 /\ error' = ErrMaxMockups
                 /\ errorTimers' = errorTimers + 1
                 /\ UNCHANGED selectedProducts
            ELSE /\ selectedProducts' = Append(selectedProducts, productId)
                 /\ UNCHANGED <<error, errorTimers>>
    /\ lastOp' = "config"
    /\ UNCHANGED <<uploadedImage, assets, isLoading, loadingMessage,
                   additionalInstructions, mode, geminiApiKey, photoroomApiKey,
                   details, showApiKeys, runState, passed, service>>

\* handleProductSelect(productId): lines 101-115
ProductSelect(productId) ==
    /\ IF Includes(selectedProducts, productId)
       THEN /\ selectedProducts' = Without(selectedProducts, productId)
            /\ UNCHANGED <<error, errorTimers>>
       ELSE IF Len(selectedProducts) >= MaxSelected
            THEN /\ errorTimers < MaxErrorTimers
                 /\ error' = ErrMaxMockups
                 /\ errorTimers' = errorTimers + 1
                 /\ UNCHANGED selectedProducts
            ELSE /\ selectedProducts' = Append(selectedProducts, productId)
                 /\ UNCHANGED <<error, errorTimers>>
    /\ lastOp' = "config"
    /\ UNCHANGED <<uploadedImage, assets, isLoading, loadingMessage,
                   additionalInstructions, mode, geminiApiKey, photoroomApiKey,
                   details, showApiKeys, runState, passed, service>>

\* a click on a card of the product selector
HandleProductSelect == \E productId \in ProductIds : ProductSelect(productId)

\* the same click, over the catalogue of the selector's own specification
HandleCatalogueSelect == \E productId \in Catalogue : ProductSelect(productId)

\* setTimeout(() => setError(null), 3000) of handleProductSelect fires
ErrorTimerFires ==
    /\ errorTimers > 0
    /\ errorTimers' = errorTimers - 1
    /\ error' = NoError
    /\ lastOp' = "timer"
    /\ UNCHANGED <<uploadedImage, assets, isLoading, loadingMessage, config,
                   details, showApiKeys, runState, passed, service>>

\* <ErrorNotification onDismiss={() => setError(null)} />
DismissError ==
    /\ error # NoError
    /\ error' = NoError
    /\ lastOp' = "config"
    /\ UNCHANGED <<uploadedImage, assets, isLoading, loadingMessage, config,
                   details, showApiKeys, runState, passed, errorTimers, service>>

\* onClick={() => setMode('cloner')} and onClick={() => setMode('redesign')}:
\* the two buttons stay enabled while a run is in flight
SetMode ==
    /\ \E m \in {"cloner", "redesign"} :
          /\ m # mode
          /\ mode' = m
    /\ lastOp' = "config"
    /\ UNCHANGED <<uploadedImage, assets, isLoading, loadingMessage, error,
                   selectedProducts, additionalInstructions, geminiApiKey,
                   photoroomApiKey, details, showApiKeys, runState, passed,
                   errorTimers, service>>

\* the texts the instructions modal saves
InstructionTexts == {"", "make it blue"}

\* <InstructionsModal onSave={(instructions) => { setAdditionalInstructions(
\* instructions); ... }} />, opened by a button that is disabled in cloner mode
SaveInstructions ==
    /\ mode = "redesign"
    /\ \E instructions \in InstructionTexts :
          /\ instructions # additionalInstructions
          /\ additionalInstructions' = instructions
    /\ lastOp' = "config"
    /\ UNCHANGED <<uploadedImage, assets, isLoading, loadingMessage, error,
                   selectedProducts, mode, geminiApiKey, photoroomApiKey,
                   details, showApiKeys, runState, passed, errorTimers, service>>

(***************************************************************************)
(* processImageFile.  The handler touches no state before its await of     *)
(* toBase64, so each action is the continuation that ends it.              *)
(***************************************************************************)
\* file.type.startsWith('image/') and toBase64 resolved
ProcessImageFileAccepted ==
    /\ uploadedImage' = UploadUrl
    /\ clonedDesign' = Asset(IDLE, NULL)
    /\ removedBgDesign' = Asset(IDLE, NULL)
    /\ resizedDesign' = Asset(IDLE, NULL)
    /\ mockups' = <<>>
    /\ error' = NoError
    /\ productDetails' = "null"
    /\ lastOp' = "processImageFile"
    /\ UNCHANGED <<isLoading, loadingMessage, config, isGeneratingDetails,
                   detailsCall, showApiKeys, runState, passed, errorTimers, service>>

\* toBase64 rejected
ProcessImageFileUnreadable ==
    /\ error' = ErrConvert
    /\ lastOp' = "processImageFile"
    /\ UNCHANGED <<uploadedImage, assets, isLoading, loadingMessage, config,
                   details, showApiKeys, runState, passed, errorTimers, service>>

\* Mutant of ProcessImageFileRejected: the staged assets, the mockups and the
\* product details are reset before the file type is looked at.
ProcessImageFileRejectedAfterReset ==
    /\ clonedDesign' = Asset(IDLE, NULL)
    /\ removedBgDesign' = Asset(IDLE, NULL)
    /\ resizedDesign' = Asset(IDLE, NULL)
    /\ mockups' = <<>>
    /\ productDetails' = "null"
    /\ error' = ErrBadFile
    /\ lastOp' = "processImageFile"
    /\ UNCHANGED <<uploadedImage, isLoading, loadingMessage, config,
                   isGeneratingDetails, detailsCall, showApiKeys, runState,
                   passed, errorTimers, service>>

\* not an image file
ProcessImageFileRejected ==
    /\ error' = ErrBadFile
    /\ lastOp' = "processImageFile"
    /\ UNCHANGED <<uploadedImage, assets, isLoading, loadingMessage, config,
                   details, showApiKeys, runState, passed, errorTimers, service>>

ProcessImageFile ==
    \/ ProcessImageFileAccepted
    \/ ProcessImageFileUnreadable
    \/ ProcessImageFileRejected

(***************************************************************************)
(* handleGenerateClick.  The Generate button is disabled while isLoading;  *)
(* the handler checks the key and the image itself.                        *)
(***************************************************************************)
\* Mutant of GenerateClickNoKey: the key check comes after the initialisation
\* of the run instead of before it.
GenerateClickNoKeyAfterReset ==
    /\ ~isLoading
    /\ geminiApiKey = ""
    /\ clonedDesign' = Asset(PENDING, NULL)
    /\ removedBgDesign' = Asset(IDLE, NULL)
    /\ resizedDesign' = Asset(IDLE, NULL)
    /\ error' = ErrNoKey
    /\ showApiKeys' = TRUE
    /\ lastOp' = "handleGenerateClick"
    /\ UNCHANGED <<uploadedImage, mockups, isLoading, loadingMessage, config,
                   details, runState, passed, errorTimers, service>>

\* if (!geminiApiKey) { setError(...); setShowApiKeys(true); return; }
GenerateClickNoKey ==
    /\ ~isLoading
    /\ geminiApiKey = ""
    /\ error' = ErrNoKey
    /\ showApiKeys' = TRUE
    /\ lastOp' = "handleGenerateClick"
    /\ UNCHANGED <<uploadedImage, assets, isLoading, loadingMessage, config,
                   details, runState, passed, errorTimers, service>>

\* if (!uploadedImage) { setError(...); return; }
GenerateClickNoImage ==
    /\ ~isLoading
    /\ geminiApiKey # ""
    /\ uploadedImage = NULL
    /\ error' = ErrNoImage
    /\ lastOp' = "handleGenerateClick"
    /\ UNCHANGED <<uploadedImage, assets, isLoading, loadingMessage, config,
                   details, showApiKeys, runState, passed, errorTimers, service>>

\* the values the handler closes over
Closure ==
    [active |-> TRUE,
     clonedStatus |-> clonedDesign.status,
     removedBgStatus |-> removedBgDesign.status,
     resizedStatus |-> resizedDesign.status,
     selectedProducts |-> selectedProducts,
     mode |-> mode,
     instructionsToPass |-> InstructionsToPass(mode, additionalInstructions),
     geminiApiKey |-> geminiApiKey,
     photoroomApiKey |-> photoroomApiKey,
     uploadedImage |-> uploadedImage]

\* the staged assets as the run start sets them
StartCloned    == Asset(PENDING, NULL)
\* Mutant of StartRemovedBg: the run start does not reset the asset.
StartRemovedBgKept == removedBgDesign
StartRemovedBg == Asset(IDLE, NULL)
StartResized   == Asset(IDLE, NULL)
\* Mutant of StartMockups: the items of the previous run are kept when there
\* are any.
StartMockupsKeepsOld(sel) == IF Len(mockups) > 0 THEN mockups ELSE PendingMockups(sel)
StartMockups(sel) == IF Len(sel) > 0 THEN PendingMockups(sel) ELSE <<>>

\* Mutant of GenerateClickStart: the Generate button is not disabled while a
\* run is in flight.
GenerateClickStartWhileLoading ==
    /\ geminiApiKey # ""
    /\ uploadedImage # NULL
    /\ isLoading' = TRUE
    /\ error' = NoError
    /\ productDetails' = "null"
    /\ clonedDesign' = StartCloned
    /\ removedBgDesign' = StartRemovedBg
    /\ resizedDesign' = StartResized
    /\ mockups' = StartMockups(selectedProducts)
    /\ loadingMessage' = "Analyzing color..."
    /\ run' = Closure
    /\ callState' = [NoCalls EXCEPT ![ANALYZE] = "pending"]
    /\ issued' = [NoneIssued EXCEPT ![ANALYZE] = 1]
    /\ passed' = NonePassed
    /\ lastOp' = "handleGenerateClick"
    /\ UNCHANGED <<uploadedImage, config, isGeneratingDetails, detailsCall,
                   showApiKeys, errorTimers, service>>

\* lines 128-144: the run starts and awaits analyzeImageColor
GenerateClickStart ==
    /\ ~isLoading
    /\ geminiApiKey # ""
    /\ uploadedImage # NULL
    /\ isLoading' = TRUE
    /\ error' = NoError
    /\ productDetails' = "null"
    /\ clonedDesign' = StartCloned
    /\ removedBgDesign' = StartRemovedBg
    /\ resizedDesign' = StartResized
    /\ mockups' = StartMockups(selectedProducts)
    /\ loadingMessage' = "Analyzing color..."
    /\ run' = Closure
    /\ callState' = [NoCalls EXCEPT ![ANALYZE] = "pending"]
    /\ issued' = [NoneIssued EXCEPT ![ANALYZE] = 1]
    /\ passed' = NonePassed
    /\ lastOp' = "handleGenerateClick"
    /\ UNCHANGED <<uploadedImage, config, isGeneratingDetails, detailsCall,
                   showApiKeys, errorTimers, service>>

HandleGenerateClick ==
    \/ GenerateClickNoKey
    \/ GenerateClickNoImage
    \/ GenerateClickStart

\* Mutant of AnalyzeResolves: removeBackground is started together with
\* cloneDesign instead of after it.
AnalyzeResolvesStartsTwo ==
    /\ callState[ANALYZE] = "pending"
    /\ loadingMessage' = IF run.mode = "cloner" THEN "Cloning design..." ELSE "Redesigning..."
    /\ callState' = [callState EXCEPT ![ANALYZE] = "ok", ![CLONE] = "pending",
                                      ![REMOVEBG] = "pending"]
    /\ issued' = [issued EXCEPT ![CLONE] = @ + 1, ![REMOVEBG] = @ + 1]
    /\ passed' = [passed EXCEPT ![CLONE] = run.instructionsToPass]
    /\ lastOp' = "callback"
    /\ UNCHANGED <<uploadedImage, assets, isLoading, error, config, details,
                   showApiKeys, run, errorTimers, service>>

\* Mutant of AnalyzeResolves: the instructions passed to cloneDesign are read
\* from the state current when the call is made, not from the run's closure.
AnalyzeResolvesReadsCurrent ==
    /\ callState[ANALYZE] = "pending"
    /\ loadingMessage' = IF run.mode = "cloner" THEN "Cloning design..." ELSE "Redesigning..."
    /\ callState' = [callState EXCEPT ![ANALYZE] = "ok", ![CLONE] = "pending"]
    /\ issued' = [issued EXCEPT ![CLONE] = @ + 1]
    /\ passed' = [passed EXCEPT ![CLONE] = InstructionsToPass(mode, additionalInstructions)]
    /\ lastOp' = "callback"
    /\ UNCHANGED <<uploadedImage, assets, isLoading, error, config, details,
                   showApiKeys, run, errorTimers, service>>

\* analyzeImageColor resolved: lines 146-148, the run awaits cloneDesign
AnalyzeResolves ==
    /\ callState[ANALYZE] = "pending"
    /\ loadingMessage' = IF run.mode = "cloner" THEN "Cloning design..." ELSE "Redesigning..."
    /\ callState' = [callState EXCEPT ![ANALYZE] = "ok", ![CLONE] = "pending"]
    /\ issued' = [issued EXCEPT ![CLONE] = @ + 1]
    /\ passed' = [passed EXCEPT ![CLONE] = run.instructionsToPass]
    /\ lastOp' = "callback"
    /\ UNCHANGED <<uploadedImage, assets, isLoading, error, config, details,
                   showApiKeys, run, errorTimers, service>>

\* Mutant of AnalyzeRejects: a failed analysis ends the run with the error
\* set but without the catch block's updates of the assets and mockups.
AnalyzeRejectsSkipsCatch ==
    /\ callState[ANALYZE] = "pending"
    /\ \E msg \in RejectMessages : error' = MessageOr(msg, ErrCritical)
    /\ callState' = [callState EXCEPT ![ANALYZE] = "err"]
    /\ Finally
    /\ lastOp' = "callback"
    /\ UNCHANGED <<uploadedImage, assets, config, details, showApiKeys, issued,
                   passed, errorTimers, service>>

AnalyzeRejects ==
    /\ callState[ANALYZE] = "pending"
    /\ \E msg \in RejectMessages : CriticalFailure(ANALYZE, msg)

\* removeBackground(apiKey, ...) throws before its fetch when the key is
\* empty, else it calls fetch once: the number of requests one call makes
PhotoroomRequests(apiKey) == IF apiKey = "" THEN 0 ELSE 1

\* cloneDesign resolved: lines 149-153, the run awaits removeBackground (which
\* runs up to its fetch at once)
CloneResolves ==
    /\ callState[CLONE] = "pending"
    /\ clonedDesign' = Asset(SUCCESS, ClonedUrl)
    /\ loadingMessage' = "Removing background..."
    /\ removedBgDesign' = Asset(PENDING, NULL)
    /\ callState' = [callState EXCEPT ![CLONE] = "ok", ![REMOVEBG] = "pending"]
    /\ issued' = [issued EXCEPT ![REMOVEBG] = @ + 1,
                                ![FETCH] = @ + PhotoroomRequests(run.photoroomApiKey)]
    /\ lastOp' = "callback"
    /\ UNCHANGED <<uploadedImage, resizedDesign, mockups, isLoading, error,
                   config, details, showApiKeys, run, passed, errorTimers, service>>

\* Mutant of CloneRejects: a rejected cloneDesign is called again, once.
CloneRejectsRetries ==
    /\ callState[CLONE] = "pending"
    /\ IF issued[CLONE] < 2
       THEN /\ issued' = [issued EXCEPT ![CLONE] = @ + 1]
            /\ lastOp' = "callback"
            /\ UNCHANGED <<uploadedImage, assets, isLoading, loadingMessage,
                           error, config, details, showApiKeys, run, callState,
                           passed, errorTimers, service>>
       ELSE \E msg \in RejectMessages : CriticalFailure(CLONE, msg)

CloneRejects ==
    /\ callState[CLONE] = "pending"
    /\ \E msg \in RejectMessages : CriticalFailure(CLONE, msg)

\* removeBackground resolved: lines 154-158, the run awaits resizeDesign
RemoveBgResolves ==
    /\ callState[REMOVEBG] = "pending"
    /\ run.photoroomApiKey # ""
    /\ removedBgDesign' = Asset(SUCCESS, TransparentUrl)
    /\ loadingMessage' = "Resizing for print..."
    /\ resizedDesign' = Asset(PENDING, NULL)
    /\ callState' = [callState EXCEPT ![REMOVEBG] = "ok", ![RESIZE] = "pending"]
    /\ issued' = [issued EXCEPT ![RESIZE] = @ + 1]
    /\ lastOp' = "callback"
    /\ UNCHANGED <<uploadedImage, clonedDesign, mockups, isLoading, error,
                   config, details, showApiKeys, run, passed, errorTimers, service>>

\* removeBackground rejected: at once when the key is empty ("if (!apiKey)
\* throw"), else a failed request
RemoveBgRejects ==
    /\ callState[REMOVEBG] = "pending"
    /\ \E msg \in (IF run.photoroomApiKey = "" THEN {ErrPhotoroomKey} ELSE RejectMessages) :
          CriticalFailure(REMOVEBG, msg)

\* selectedProducts.map(async (productId) => { ... createMockup(...) ... })
IssueMockups(sel) ==
    /\ callState' = [c \in Calls |->
                        IF c = RESIZE THEN "ok"
                        ELSE IF \E i \in 1..Len(sel) : c = MOCKUP(sel[i]) THEN "pending"
                        ELSE callState[c]]
    /\ issued' = [c \in DOMAIN issued |->
                        issued[c] + Cardinality({i \in 1..Len(sel) : c = MOCKUP(sel[i])})]
    /\ passed' = [c \in Calls |->
                        IF \E i \in 1..Len(sel) : c = MOCKUP(sel[i])
                        THEN run.instructionsToPass ELSE passed[c]]

\* resizeDesign resolved: lines 159-165, the fan-out; with no product
\* selected the run ends
ResizeResolves ==
    /\ callState[RESIZE] = "pending"
    /\ resizedDesign' = Asset(SUCCESS, ResizedUrl)
    /\ IF Len(run.selectedProducts) > 0
       THEN /\ loadingMessage' = "Creating mockups..."
            /\ IssueMockups(run.selectedProducts)
            /\ UNCHANGED <<isLoading, run>>
       ELSE /\ Finally
            /\ callState' = [callState EXCEPT ![RESIZE] = "ok"]
            /\ UNCHANGED <<issued, passed>>
    /\ lastOp' = "callback"
    /\ UNCHANGED <<uploadedImage, clonedDesign, removedBgDesign, mockups, error,
                   config, details, showApiKeys, errorTimers, service>>

ResizeRejects ==
    /\ callState[RESIZE] = "pending"
    /\ \E msg \in RejectMessages : CriticalFailure(RESIZE, msg)

\* Mutant of JoinMockups: the run reaches its finally block as soon as one
\* createMockup call has settled (Promise.race).
JoinMockupsFirstSettled(cs) == Finally

\* Promise.all resolves once no createMockup call is pending; the run then
\* reaches its finally block
JoinMockups(cs) ==
    IF \E c \in MockupCalls : cs[c] = "pending"
    THEN UNCHANGED <<isLoading, loadingMessage, run>>
    ELSE Finally

\* createMockup for productId resolved: line 166
MockupResolves ==
    \E productId \in ProductIds :
        /\ callState[MOCKUP(productId)] = "pending"
        /\ mockups' = MockupSucceeded(mockups, productId, MockupUrl(productId))
        /\ callState' = [callState EXCEPT ![MOCKUP(productId)] = "ok"]
        /\ JoinMockups(callState')
        /\ lastOp' = "callback"
        /\ UNCHANGED <<uploadedImage, clonedDesign, removedBgDesign, resizedDesign,
                       error, config, details, showApiKeys, issued, passed, errorTimers, service>>

\* Mutant of MockupRejects: the callback's catch also reports the failure on
\* the top-level error.
MockupRejectsSetsError ==
    \E productId \in ProductIds :
        /\ callState[MOCKUP(productId)] = "pending"
        /\ mockups' = MockupFailed(mockups, productId)
        /\ error' = ErrCritical
        /\ callState' = [callState EXCEPT ![MOCKUP(productId)] = "err"]
        /\ JoinMockups(callState')
        /\ lastOp' = "callback"
        /\ UNCHANGED <<uploadedImage, clonedDesign, removedBgDesign, resizedDesign,
                       config, details, showApiKeys, issued, passed, errorTimers, service>>

\* createMockup for productId rejected: lines 167-170
MockupRejects ==
    \E productId \in ProductIds :
        /\ callState[MOCKUP(productId)] = "pending"
        /\ mockups' = MockupFailed(mockups, productId)
        /\ callState' = [callState EXCEPT ![MOCKUP(productId)] = "err"]
        /\ JoinMockups(callState')
        /\ lastOp' = "callback"
        /\ UNCHANGED <<uploadedImage, clonedDesign, removedBgDesign, resizedDesign,
                       error, config, details, showApiKeys, issued, passed, errorTimers, service>>

(***************************************************************************)
(* handleGenerateDetails.  Its button is rendered while resizedDesign is   *)
(* Success and disabled while isGeneratingDetails.                         *)
(***************************************************************************)
\* getAiClient(apiKey) throws on an empty key, inside the async function:
\* the promise is then rejected from the start
DetailsCallIssued(apiKey) == IF apiKey = "" THEN "failing" ELSE "pending"

\* if (!removedBgDesign.imageUrl) return;
GenerateDetailsNoImage ==
    /\ resizedDesign.status = SUCCESS
    /\ ~isGeneratingDetails
    /\ removedBgDesign.imageUrl = NULL
    /\ lastOp' = "handleGenerateDetails"
    /\ UNCHANGED <<uploadedImage, assets, isLoading, loadingMessage, error,
                   config, details, showApiKeys, runState, passed, errorTimers, service>>

\* Mutant of GenerateDetailsStart: the button is there as soon as the
\* background is removed, whatever the status of the resized design.
GenerateDetailsStartUngated ==
    /\ ~isGeneratingDetails
    /\ removedBgDesign.imageUrl # NULL
    /\ isGeneratingDetails' = TRUE
    /\ productDetails' = "null"
    /\ error' = NoError
    /\ detailsCall' = DetailsCallIssued(geminiApiKey)
    /\ lastOp' = "handleGenerateDetails"
    /\ UNCHANGED <<uploadedImage, assets, isLoading, loadingMessage, config,
                   showApiKeys, runState, passed, errorTimers, service>>

\* lines 192-197: the handler awaits generateProductDetails
GenerateDetailsStart ==
    /\ resizedDesign.status = SUCCESS
    /\ ~isGeneratingDetails
    /\ removedBgDesign.imageUrl # NULL
    /\ isGeneratingDetails' = TRUE
    /\ productDetails' = "null"
    /\ error' = NoError
    /\ detailsCall' = DetailsCallIssued(geminiApiKey)
    /\ lastOp' = "handleGenerateDetails"
    /\ UNCHANGED <<uploadedImage, assets, isLoading, loadingMessage, config,
                   showApiKeys, runState, passed, errorTimers, service>>

HandleGenerateDetails ==
    \/ GenerateDetailsNoImage
    \/ GenerateDetailsStart

\* generateProductDetails resolved: line 198 and the finally block
DetailsResolves ==
    /\ detailsCall = "pending"
    /\ productDetails' = "details"
    /\ isGeneratingDetails' = FALSE
    /\ detailsCall' = "none"
    /\ lastOp' = "detailsCallback"
    /\ UNCHANGED <<uploadedImage, assets, isLoading, loadingMessage, error,
                   config, showApiKeys, runState, passed, errorTimers, service>>

\* generateProductDetails rejected: line 200 and the finally block
DetailsRejects ==
    /\ detailsCall \in {"pending", "failing"}
    /\ \E msg \in (IF detailsCall = "failing" THEN {ErrGeminiKey} ELSE RejectMessages) :
          error' = MessageOr(msg, ErrDetails)
    /\ isGeneratingDetails' = FALSE
    /\ detailsCall' = "none"
    /\ lastOp' = "detailsCallback"
    /\ UNCHANGED <<uploadedImage, assets, isLoading, loadingMessage,
                   productDetails, config, showApiKeys, runState, passed, errorTimers,
                   service>>

(***************************************************************************)
(* The mockup grid: <MockupCard key={mockup.id} mockup={mockup}            *)
(* onDownload={handleDownload} />                                          *)
(***************************************************************************)
\* the onRegenerate prop of MockupCard as App passes it: not at all
OnRegenerate == "undefined"

\* MockupCard renders ErrorCard for a failed item, and ErrorCard its Retry
\* button only with a handler: {onRegenerate && <Button ...>Retry</Button>}
RetryButtonRendered(m) == m.status = FAILED /\ OnRegenerate # "undefined"

(***************************************************************************)
(* services/: the composition of the prompts.  A text is a sequence of     *)
(* tokens: single characters (a letter, a period, a space, a newline) and  *)
(* the fixed phrases the code tests for or inserts.                        *)
(***************************************************************************)
\* the longest extracted prompt and the longest instructions drawn, in tokens
MaxPromptLen == 3
MaxInstructionsLen == 2

BlackClause == "on a solid black background"
WhiteClause == "on a solid white background"
\* the same clause in another letter case
BlackClauseUpper == "ON A SOLID BLACK BACKGROUND"

\* what the i flag of the regular expression compares
ToLowerCase(tok) == IF tok = BlackClauseUpper THEN BlackClause ELSE tok

\* the characters String.prototype.trim removes
Whitespace == {" ", "\n"}

PromptTokens == {"x", ".", " ", "\n", BlackClause, WhiteClause, BlackClauseUpper}
InstructionTokens == {"x", " "}

\* the texts of at most n tokens
Texts(tokens, n) == UNION {[1..k -> tokens] : k \in 0..n}

\* the optional parameter additionalInstructions?: string
Absent == [given |-> FALSE, text |-> <<>>]
Given(t) == [given |-> TRUE, text |-> t]

RECURSIVE TrimStart(_)
TrimStart(s) ==
    IF s # <<>> /\ Head(s) \in Whitespace THEN TrimStart(Tail(s)) ELSE s

RECURSIVE TrimEnd(_)
TrimEnd(s) ==
    IF s # <<>> /\ s[Len(s)] \in Whitespace
    THEN TrimEnd(SubSeq(s, 1, Len(s) - 1))
    ELSE s

\* s.trim()
Trim(s) == TrimEnd(TrimStart(s))

\* s.endsWith(suffix)
EndsWith(s, suffix) ==
    /\ Len(s) >= Len(suffix)
    /\ SubSeq(s, Len(s) - Len(suffix) + 1, Len(s)) = suffix

\* Mutant of HasInstructions: the instructions are not trimmed before the
\* length test.
HasInstructionsUntrimmed(instr) == instr.given /\ Len(instr.text) > 0

\* additionalInstructions && additionalInstructions.trim().length > 0
HasInstructions(instr) ==
    instr.given /\ instr.text # <<>> /\ Len(Trim(instr.text)) > 0

\* extractedPrompt.match(/( on a solid (black|white) background)$/i): a
\* space, then the clause, then the end of the string
BackgroundInstructionMatch(extractedPrompt) ==
    /\ Len(extractedPrompt) >= 2
    /\ extractedPrompt[Len(extractedPrompt) - 1] = " "
    /\ ToLowerCase(extractedPrompt[Len(extractedPrompt)]) \in {BlackClause, WhiteClause}

AdditionalMarker == "Additional instructions: "

\* Mutant of InstructionsBeforeBackground: the period is appended whether or
\* not the remaining text ends with one.
InstructionsBeforeBackgroundPeriod(extractedPrompt, text) ==
    LET n == Len(extractedPrompt)
    IN  SubSeq(extractedPrompt, 1, n - 2) \o <<".", " ", AdditionalMarker>>
            \o text \o SubSeq(extractedPrompt, n - 1, n)

\* `${promptWithoutBackground}${separator} Additional instructions:
\* ${additionalInstructions}${backgroundInstruction}`
InstructionsBeforeBackground(extractedPrompt, text) ==
    LET n == Len(extractedPrompt)
        backgroundInstruction == SubSeq(extractedPrompt, n - 1, n)
        promptWithoutBackground == SubSeq(extractedPrompt, 1, n - 2)
        separator == IF EndsWith(promptWithoutBackground, <<".">>) THEN <<>> ELSE <<".">>
    IN  promptWithoutBackground \o separator \o <<" ", AdditionalMarker>>
            \o text \o backgroundInstruction

\* Mutant of InstructionsAppended: the prompt loses its trailing whitespace
\* before the instructions are appended.
InstructionsAppendedTrimmed(extractedPrompt, text) ==
    TrimEnd(extractedPrompt) \o <<"\n", "\n", AdditionalMarker>> \o text

\* extractedPrompt += `\n\nAdditional instructions: ${additionalInstructions}`
InstructionsAppended(extractedPrompt, text) ==
    extractedPrompt \o <<"\n", "\n", AdditionalMarker>> \o text

\* cloneDesign, lines 204-220: the prompt passed to generateImage
ClonePrompt(extractedPrompt, instr) ==
    IF HasInstructions(instr)
    THEN IF BackgroundInstructionMatch(extractedPrompt)
         THEN InstructionsBeforeBackground(extractedPrompt, instr.text)
         ELSE InstructionsAppended(extractedPrompt, instr.text)
    ELSE extractedPrompt

\* the template of createMockup's finalPrompt around its two parameters
BaseMockupPrompt(productPrompt, productColorHex) ==
    <<"Take the provided design and create a photorealistic mockup. ">>
        \o productPrompt
        \o <<". IMPORTANT: The main color of the product (e.g., the t-shirt fabric, the mug's ceramic) MUST be the hex color: ",
             productColorHex,
             ". The design must be placed naturally on the product, conforming to its shape, texture, and lighting. The final image should look like a professional product photograph.">>

MockupMarker == "ADDITIONAL INSTRUCTIONS: "

\* Mutant of MockupInstructions: one newline instead of two.
MockupInstructionsOneNewline(text) == <<"\n", MockupMarker>> \o text

\* `\n\nADDITIONAL INSTRUCTIONS: ${additionalInstructions}`
MockupInstructions(text) == <<"\n", "\n", MockupMarker>> \o text

\* createMockup, lines 225-231: the prompt passed to generateImage
MockupPrompt(productPrompt, productColorHex, instr) ==
    IF HasInstructions(instr)
    THEN BaseMockupPrompt(productPrompt, productColorHex)
            \o MockupInstructions(instr.text)
    ELSE BaseMockupPrompt(productPrompt, productColorHex)

\* the instructions drawn: none, and every text up to the bound
InstructionsDrawn ==
    {Absent} \cup {Given(t) : t \in Texts(InstructionTokens, MaxInstructionsLen)}

\* cloneDesign after its await of extractDesignPrompt, createMockup called
CloneRequests ==
    [fn : {"cloneDesign"},
     extractedPrompt : Texts(PromptTokens, MaxPromptLen),
     additionalInstructions : InstructionsDrawn]

MockupRequests ==
    [fn : {"createMockup"},
     productPrompt : Texts({"x", "."}, 1),
     productColorHex : {"#000000", "#F3F4F6"},
     additionalInstructions : InstructionsDrawn]

InitPrompts ==
    /\ Mounted
    /\ \/ request \in CloneRequests
       \/ request \in MockupRequests
    /\ reply = NoReply

\* cloneDesign reaches its call of generateImage
CloneDesignSendsPrompt ==
    /\ request.fn = "cloneDesign"
    /\ reply = NoReply
    /\ reply' = [kind |-> "prompt",
                 prompt |-> ClonePrompt(request.extractedPrompt,
                                        request.additionalInstructions)]
    /\ UNCHANGED <<uploadedImage, assets, isLoading, loadingMessage, error,
                   config, details, showApiKeys, runState, passed, errorTimers, request,
                   lastOp>>

\* createMockup reaches its call of generateImage
CreateMockupSendsPrompt ==
    /\ request.fn = "createMockup"
    /\ reply = NoReply
    /\ reply' = [kind |-> "prompt",
                 prompt |-> MockupPrompt(request.productPrompt,
                                         request.productColorHex,
                                         request.additionalInstructions)]
    /\ UNCHANGED <<uploadedImage, assets, isLoading, loadingMessage, error,
                   config, details, showApiKeys, runState, passed, errorTimers, request,
                   lastOp>>

(***************************************************************************)
(* services/: generateImage, the classification of the backend's response. *)
(* A missing optional field is the empty value of its type (the code tests *)
(* each for truthiness or length, so undefined and empty take the same     *)
(* branch); response.text is drawn independently of the parts.             *)
(***************************************************************************)
\* the most safety ratings and the most content parts of a response drawn
MaxRatings == 2
MaxParts == 2

BlockReasons == {"SAFETY", "OTHER"}
BlockReasonMessages == {"The prompt was blocked."}

\* the harm categories drawn, as the tokens of their names
HateSpeech == <<"HARM_CATEGORY_", "HATE", "_", "SPEECH">>
Harassment == <<"HARM_CATEGORY_", "HARASSMENT">>

Probabilities == {"LOW", "MEDIUM", "HIGH"}

SafetyRatings == [category : {HateSpeech, Harassment}, probability : Probabilities]

\* the texts drawn for response.text and for the text of a part
ResponseTexts == {<<>>, <<" ">>, <<"x", " ">>}

ImageData == "iVBORw0KGgo"

\* a part: { inlineData: { data } } or { text }; "" and <<>> when missing
ImagePart == [inlineData |-> ImageData, text |-> <<>>]
\* a part with another image
OtherImageData == "R0lGODlhAQAB"
OtherImagePart == [inlineData |-> OtherImageData, text |-> <<>>]
TextPart(t) == [inlineData |-> "", text |-> t]
ContentParts == {ImagePart, OtherImagePart} \cup {TextPart(t) : t \in ResponseTexts}

Responses ==
    [blockReason : {""} \cup BlockReasons,
     blockReasonMessage : {""} \cup BlockReasonMessages,
     safetyRatings : UNION {[1..k -> SafetyRatings] : k \in 0..MaxRatings},
     parts : UNION {[1..k -> ContentParts] : k \in 0..MaxParts},
     text : ResponseTexts]

\* array.find(test), given the indexes of the elements that pass the test:
\* the first of them, 0 if there is none
Find(passing) ==
    IF passing = {} THEN 0
    ELSE CHOOSE i \in passing : \A j \in passing : i <= j

\* String.prototype.toLowerCase on the words of a category
LowerCaseWord(w) ==
    CASE w = "HATE" -> "hate"
      [] w = "SPEECH" -> "speech"
      [] w = "HARASSMENT" -> "harassment"
      [] OTHER -> w

\* category.replace('HARM_CATEGORY_', '').replace(/_/g, ' ').toLowerCase()
CategoryText(category) ==
    LET i == Find({k \in 1..Len(category) : category[k] = "HARM_CATEGORY_"})
        stripped == IF i = 0 THEN category
                    ELSE SubSeq(category, 1, i - 1) \o SubSeq(category, i + 1, Len(category))
    IN  [k \in 1..Len(stripped) |->
            IF stripped[k] = "_" THEN " " ELSE LowerCaseWord(stripped[k])]

Thrown(name, message) == [kind |-> "error", error |-> name, message |-> message]
Returned(url) == [kind |-> "image", url |-> url]

\* lines 153-159
BlockedContent(response) ==
    Thrown("BlockedContent",
           <<"Image generation failed due to: ", response.blockReason, ".">>
              \o (IF response.blockReasonMessage # ""
                  THEN <<" Message: ", response.blockReasonMessage>>
                  ELSE <<>>))

\* lines 162-170
HarmfulRating(response) ==
    Find({i \in 1..Len(response.safetyRatings) :
            response.safetyRatings[i].probability \in {"HIGH", "MEDIUM"}})

FilteredContent(response) ==
    Thrown("FilteredContent",
           <<"Image generation failed. The request was filtered due to potential ">>
              \o CategoryText(response.safetyRatings[HarmfulRating(response)].category)
              \o <<" content.">>)

\* lines 175-181
EmptyResponse(response) ==
    IF Trim(response.text) # <<>>
    THEN Thrown("BackendText", <<"API call failed: ">> \o Trim(response.text))
    ELSE Thrown("EmptyResponse", <<"API returned an empty response. This could be due to safety filters or an unclear prompt. Please try modifying your instructions or using a different image.">>)

\* Mutant of ImagePartIndex: the last part with image data instead of the
\* first.
ImagePartIndexLast(response) ==
    LET images == {i \in 1..Len(response.parts) : response.parts[i].inlineData # ""}
    IN  IF images = {} THEN 0 ELSE CHOOSE i \in images : \A j \in images : j <= i

\* lines 183-187
ImagePartIndex(response) ==
    Find({i \in 1..Len(response.parts) : response.parts[i].inlineData # ""})

\* lines 190-197
NoImage(response) ==
    LET textPart == Find({i \in 1..Len(response.parts) : response.parts[i].text # <<>>})
        textResponse == IF textPart # 0 THEN response.parts[textPart].text
                        ELSE response.text
    IN  IF textResponse # <<>> /\ Trim(textResponse) # <<>>
        THEN Thrown("TextOnlyResponse",
                    <<"API returned text instead of an image: \"">>
                       \o Trim(textResponse) \o <<"\"">>)
        ELSE Thrown("NoImageReturned", <<"API did not return an image. Please try a different design or prompt.">>)

\* lines 172-197: what follows the two checks of promptFeedback
ClassifyContent(response) ==
    IF Len(response.parts) = 0 THEN EmptyResponse(response)
    ELSE IF ImagePartIndex(response) # 0
    THEN Returned(<<"data:image/png;base64,",
                    response.parts[ImagePartIndex(response)].inlineData>>)
    ELSE NoImage(response)

\* Mutant of GenerateImage: the image part is looked for before the block
\* reason.
GenerateImageImageFirst(response) ==
    IF ImagePartIndex(response) # 0
    THEN Returned(<<"data:image/png;base64,",
                    response.parts[ImagePartIndex(response)].inlineData>>)
    ELSE IF response.blockReason # "" THEN BlockedContent(response)
    ELSE IF HarmfulRating(response) # 0 THEN FilteredContent(response)
    ELSE ClassifyContent(response)

\* generateImage, lines 152-197: what the call returns or throws
GenerateImage(response) ==
    IF response.blockReason # "" THEN BlockedContent(response)
    ELSE IF HarmfulRating(response) # 0 THEN FilteredContent(response)
    ELSE ClassifyContent(response)

InitGenerateImage ==
    /\ Mounted
    /\ request \in [fn : {"generateImage"}, response : Responses]
    /\ reply = NoReply

\* generateContent has resolved with request.response and generateImage
\* returns the image
GenerateImageResolves ==
    /\ request.fn = "generateImage"
    /\ reply = NoReply
    /\ GenerateImage(request.response).kind = "image"
    /\ reply' = GenerateImage(request.response)
    /\ UNCHANGED <<uploadedImage, assets, isLoading, loadingMessage, error,
                   config, details, showApiKeys, runState, passed, errorTimers, request,
                   lastOp>>

\* ... and generateImage throws
GenerateImageRejects ==
    /\ request.fn = "generateImage"
    /\ reply = NoReply
    /\ GenerateImage(request.response).kind = "error"
    /\ reply' = GenerateImage(request.response)
    /\ UNCHANGED <<uploadedImage, assets, isLoading, loadingMessage, error,
                   config, details, showApiKeys, runState, passed, errorTimers, request,
                   lastOp>>

(***************************************************************************)
(* services/: extractDesignPrompt, from the response text to its result.   *)
(* A text is a sequence of tokens: the four tags, a word and a blank.      *)
(***************************************************************************)
MaxResponseLen == 4

FinalPromptOpen == "<final_prompt>"
FinalPromptClose == "</final_prompt>"
AnalysisOpen == "<analysis>"
AnalysisClose == "</analysis>"

ExtractorTokens ==
    {FinalPromptOpen, FinalPromptClose, AnalysisOpen, AnalysisClose, "x", " "}

ExtractRequests ==
    [fn : {"extractDesignPrompt"}, text : Texts(ExtractorTokens, MaxResponseLen)]

InitExtract ==
    /\ Mounted
    /\ request \in ExtractRequests
    /\ reply = NoReply

\* text.match(/<open>([\s\S]*?)<\/open>/): the leftmost opening tag that a
\* closing tag follows, and the first closing tag after it; found is FALSE
\* when there is no match
ElementMatch(text, open, close) ==
    LET start == Find({i \in 1..Len(text) :
                         /\ text[i] = open
                         /\ \E j \in (i + 1)..Len(text) : text[j] = close})
        end == Find({j \in (start + 1)..Len(text) : text[j] = close})
    IN  IF start = 0
        THEN [found |-> FALSE, start |-> 0, end |-> 0, content |-> <<>>]
        ELSE [found |-> TRUE, start |-> start, end |-> end,
              content |-> SubSeq(text, start + 1, end - 1)]

\* text.replace(/<analysis>[\s\S]*?<\/analysis>/, '')
AnalysisRemoved(text) ==
    LET m == ElementMatch(text, AnalysisOpen, AnalysisClose)
    IN  IF m.found
        THEN SubSeq(text, 1, m.start - 1) \o SubSeq(text, m.end + 1, Len(text))
        ELSE text

ErrExtract == "Failed to extract a valid design prompt from the AI response."

\* lines 86-100
ExtractDesignPrompt(responseText) ==
    LET text == Trim(responseText)
        finalPromptMatch == ElementMatch(text, FinalPromptOpen, FinalPromptClose)
        analysisRemoved == Trim(AnalysisRemoved(text))
    IN  IF finalPromptMatch.found /\ finalPromptMatch.content # <<>>
        THEN [kind |-> "prompt", prompt |-> Trim(finalPromptMatch.content)]
        ELSE IF analysisRemoved # <<>>
        THEN [kind |-> "prompt", prompt |-> analysisRemoved]
        ELSE Thrown("ParseFailure", <<ErrExtract>>)

\* generateContent has resolved with request.text and a prompt is returned
ExtractReturns ==
    /\ request.fn = "extractDesignPrompt"
    /\ reply = NoReply
    /\ ExtractDesignPrompt(request.text).kind = "prompt"
    /\ reply' = ExtractDesignPrompt(request.text)
    /\ UNCHANGED <<uploadedImage, assets, isLoading, loadingMessage, error,
                   config, details, showApiKeys, runState, passed, errorTimers,
                   request, lastOp>>

\* throw new Error("Failed to extract a valid design prompt from the AI response.")
ExtractThrows ==
    /\ request.fn = "extractDesignPrompt"
    /\ reply = NoReply
    /\ ExtractDesignPrompt(request.text).kind = "error"
    /\ reply' = ExtractDesignPrompt(request.text)
    /\ UNCHANGED <<uploadedImage, assets, isLoading, loadingMessage, error,
                   config, details, showApiKeys, runState, passed, errorTimers,
                   request, lastOp>>

(***************************************************************************)
(* services/: removeBackground, from its call to its result.               *)
(***************************************************************************)
\* response.status of a response that is not ok, as the template prints it
ErrorStatuses == {"400", "401", "402", "403", "404", "429", "500", "503"}
\* what response.text() gives for such a response
ErrorBodies == {"quota exceeded", "invalid image", "unauthorized"}

SourceImages == {"data:image/png;base64,AAAA", "data:image/png;base64,BBBB"}

RemoveBackgroundRequests ==
    [fn : {"removeBackground"},
     apiKey : {"", "sk_pr_default"},
     base64Image : SourceImages]

InitRemoveBackground ==
    /\ Mounted
    /\ request \in RemoveBackgroundRequests
    /\ reply = NoReply

\* what removeBackground throws, with the number of requests it has made and
\* the response it has received, if any
RemoveBackgroundThrown(name, message, requests, response) ==
    [kind |-> "error", error |-> name, message |-> message,
     requests |-> requests, response |-> response]

NoResponse == [ok |-> FALSE, status |-> "", body |-> ""]

\* if (!apiKey) throw new Error("Photoroom API key is missing.")
RemoveBackgroundNoKey ==
    /\ request.fn = "removeBackground"
    /\ reply = NoReply
    /\ request.apiKey = ""
    /\ reply' = RemoveBackgroundThrown("MissingCredential", <<ErrPhotoroomKey>>,
                                       0, NoResponse)
    /\ UNCHANGED <<uploadedImage, assets, isLoading, loadingMessage, error,
                   config, details, showApiKeys, runState, passed, errorTimers, request,
                   lastOp>>

\* lines 282-292: the request is made and awaited
RemoveBackgroundFetches ==
    /\ request.fn = "removeBackground"
    /\ reply = NoReply
    /\ request.apiKey # ""
    /\ reply' = [kind |-> "fetching", requests |-> PhotoroomRequests(request.apiKey)]
    /\ UNCHANGED <<uploadedImage, assets, isLoading, loadingMessage, error,
                   config, details, showApiKeys, runState, passed, errorTimers, request,
                   lastOp>>

\* `Background removal failed. Status: ${response.status}`
BackendErrorMessage(response) ==
    <<"Background removal failed. Status: ", response.status>>

\* lines 294-298: the response is not ok; its text is read and logged
FetchNotOk ==
    /\ reply.kind = "fetching"
    /\ \E status \in ErrorStatuses, body \in ErrorBodies :
          LET response == [ok |-> FALSE, status |-> status, body |-> body]
          IN  reply' = RemoveBackgroundThrown("BackendError",
                                              BackendErrorMessage(response),
                                              reply.requests, response)
    /\ UNCHANGED <<uploadedImage, assets, isLoading, loadingMessage, error,
                   config, details, showApiKeys, runState, passed, errorTimers, request,
                   lastOp>>

\* fetch itself rejects
FetchRejects ==
    /\ reply.kind = "fetching"
    /\ reply' = RemoveBackgroundThrown("NetworkError", <<"Failed to fetch">>,
                                       reply.requests, NoResponse)
    /\ UNCHANGED <<uploadedImage, assets, isLoading, loadingMessage, error,
                   config, details, showApiKeys, runState, passed, errorTimers, request,
                   lastOp>>

\* lines 300-306: the response is ok; its blob is handed to a FileReader
FetchOk ==
    /\ reply.kind = "fetching"
    /\ reply' = [kind |-> "reading", requests |-> reply.requests]
    /\ UNCHANGED <<uploadedImage, assets, isLoading, loadingMessage, error,
                   config, details, showApiKeys, runState, passed, errorTimers, request,
                   lastOp>>

\* reader.onloadend = () => resolve(reader.result as string)
ReaderLoadEnd ==
    /\ reply.kind = "reading"
    /\ reply' = [kind |-> "image", url |-> "data:image/png;base64,CCCC",
                 requests |-> reply.requests]
    /\ UNCHANGED <<uploadedImage, assets, isLoading, loadingMessage, error,
                   config, details, showApiKeys, runState, passed, errorTimers, request,
                   lastOp>>

\* reader.onerror = reject
ReaderError ==
    /\ reply.kind = "reading"
    /\ reply' = RemoveBackgroundThrown("DecodeError", <<>>, reply.requests,
                                       [ok |-> TRUE, status |-> "200", body |-> ""])
    /\ UNCHANGED <<uploadedImage, assets, isLoading, loadingMessage, error,
                   config, details, showApiKeys, runState, passed, errorTimers, request,
                   lastOp>>

(***************************************************************************)
(* resizeDesign (services/designExtractor.ts).  The sizes and offsets are   *)
(* JavaScript numbers: IEEE-754 doubles, 53 significant bits, every         *)
(* operation rounded to nearest, ties to even.  A number is modelled by the *)
(* digits in base 2^15, least significant first and without leading zeros,  *)
(* of its value times 2^75 (FractionDigits digits after the point); all     *)
(* the numbers met here are such multiples.                                 *)
(***************************************************************************)
SignificantBits == 53
DigitBits == 15
FractionDigits == 5

Base == 2 ^ DigitBits

Zeros(n) == [i \in 1..n |-> 0]

RECURSIVE Normalized(_)
Normalized(a) ==
    IF a = <<>> THEN <<>>
    ELSE IF a[Len(a)] = 0 THEN Normalized(SubSeq(a, 1, Len(a) - 1))
    ELSE a

RECURSIVE Digits(_)
Digits(n) == IF n = 0 THEN <<>> ELSE <<n % Base>> \o Digits(n \div Base)

\* the number n, an integer
Number(n) == IF n = 0 THEN <<>> ELSE Zeros(FractionDigits) \o Digits(n)

\* -1, 0, 1 as a < b, a = b, a > b
RECURSIVE CompareFrom(_, _, _)
CompareFrom(a, b, i) ==
    IF i = 0 THEN 0
    ELSE IF a[i] < b[i] THEN -1
    ELSE IF a[i] > b[i] THEN 1
    ELSE CompareFrom(a, b, i - 1)

Compare(a, b) ==
    IF Len(a) < Len(b) THEN -1
    ELSE IF Len(a) > Len(b) THEN 1
    ELSE CompareFrom(a, b, Len(a))

LessEq(a, b) == Compare(a, b) <= 0

RECURSIVE TimesFrom(_, _, _, _, _)
TimesFrom(a, k, i, carry, out) ==
    IF i > Len(a)
    THEN out \o Digits(carry)
    ELSE TimesFrom(a, k, i + 1, (a[i] * k + carry) \div Base,
                   Append(out, (a[i] * k + carry) % Base))

\* a * k, exactly, for an integer 0 <= k <= Base
Times(a, k) == Normalized(TimesFrom(a, k, 1, 0, <<>>))

RECURSIVE DividedFrom(_, _, _, _, _)
DividedFrom(a, k, i, rem, out) ==
    IF i = 0
    THEN [quotient |-> Normalized(out), remainder |-> rem]
    ELSE DividedFrom(a, k, i - 1, (Base * rem + a[i]) % k,
                     <<(Base * rem + a[i]) \div k>> \o out)

\* a / k for an integer 0 < k <= Base: the quotient with the digits below
\* the last one cut off, and the remainder of the division
Divided(a, k) == DividedFrom(a, k, Len(a), 0, <<>>)

RECURSIVE PlusFrom(_, _, _, _, _)
PlusFrom(a, b, i, carry, out) ==
    IF i > Len(a) /\ i > Len(b)
    THEN out \o Digits(carry)
    ELSE LET x == IF i <= Len(a) THEN a[i] ELSE 0
             y == IF i <= Len(b) THEN b[i] ELSE 0
         IN  PlusFrom(a, b, i + 1, (x + y + carry) \div Base,
                      Append(out, (x + y + carry) % Base))

Plus(a, b) == Normalized(PlusFrom(a, b, 1, 0, <<>>))

RECURSIVE MinusFrom(_, _, _, _, _)
MinusFrom(a, b, i, borrow, out) ==
    IF i > Len(a)
    THEN out
    ELSE LET y == (IF i <= Len(b) THEN b[i] ELSE 0) + borrow
         IN  MinusFrom(a, b, i + 1, IF a[i] < y THEN 1 ELSE 0,
                       Append(out, (a[i] + Base - y) % Base))

\* a - b for a >= b
Minus(a, b) == Normalized(MinusFrom(a, b, 1, 0, <<>>))

\* |a - b|
Distance(a, b) == IF LessEq(b, a) THEN Minus(a, b) ELSE Minus(b, a)

RECURSIVE BitsOf(_)
BitsOf(n) == IF n = 0 THEN 0 ELSE 1 + BitsOf(n \div 2)

\* the number of binary digits of a
BitLength(a) ==
    IF a = <<>> THEN 0 ELSE DigitBits * (Len(a) - 1) + BitsOf(a[Len(a)])

\* round to nearest, ties to even: a is the exact result with the digits
\* below the last one cut off, and exact tells that nothing was cut off
Rounded(a, exact) ==
    IF BitLength(a) <= SignificantBits THEN a
    ELSE LET s == BitLength(a) - SignificantBits
             n == s \div DigitBits
             b == s % DigitBits
             high == Divided(SubSeq(a, n + 1, Len(a)), 2 ^ b)
             kept == high.quotient
             dropped == Normalized(SubSeq(a, 1, n) \o <<high.remainder>>)
             half == IF b > 0 THEN Zeros(n) \o <<2 ^ (b - 1)>>
                     ELSE Zeros(n - 1) \o <<Base \div 2>>
             up == \/ Compare(dropped, half) > 0
                   \/ Compare(dropped, half) = 0 /\ (~exact \/ kept[1] % 2 = 1)
         IN  Normalized(Zeros(n) \o Times(IF up THEN Plus(kept, <<1>>) ELSE kept, 2 ^ b))

\* n / d for integers n and d, as the double division computes it
Quotient(n, d) ==
    LET q == Divided(Number(n), d) IN Rounded(q.quotient, q.remainder = 0)

\* k * a for an integer k and a double a, as the double multiplication
\* computes it
Product(k, a) == Rounded(Times(a, k), TRUE)

\* Mutant of MathMin: the larger ratio, which fills the canvas instead of
\* fitting into it.
MathMax(a, b) == IF LessEq(a, b) THEN b ELSE a

\* Math.min
MathMin(a, b) == IF LessEq(a, b) THEN a ELSE b

\* the signed double (n - a) / 2 for an integer n and a double a: the
\* subtraction is rounded, the halving is exact
HalfDifference(n, a) ==
    [negative |-> ~LessEq(a, Number(n)),
     magnitude |-> Divided(Rounded(Distance(Number(n), a), TRUE), 2).quotient]

\* const targetWidth = 4500; const targetHeight = 5400;
TargetWidth == 4500
TargetHeight == 5400

\* the widths and heights of the source images drawn: every one up to
\* MaxSide and a few larger ones, smaller and larger than the canvas
MaxSide == 24
LargeSides == {273, 1067, 4500, 5400, 9000}
Sides == 1..MaxSide \cup LargeSides

ResizeRequests == [fn : {"resizeDesign"}, width : Sides, height : Sides]

InitResize ==
    /\ Mounted
    /\ request \in ResizeRequests
    /\ reply = NoReply

\* lines 322-348: the canvas and the rectangle that drawImage is given
ResizeDesign(img) ==
    LET hRatio == Quotient(TargetWidth, img.width)
        vRatio == Quotient(TargetHeight, img.height)
        ratio == MathMin(hRatio, vRatio)
        newWidth == Product(img.width, ratio)
        newHeight == Product(img.height, ratio)
        xOffset == HalfDifference(TargetWidth, newWidth)
        yOffset == HalfDifference(TargetHeight, newHeight)
    IN  [kind |-> "canvas", width |-> TargetWidth, height |-> TargetHeight,
         drawn |-> [x |-> xOffset, y |-> yOffset,
                    width |-> newWidth, height |-> newHeight]]

\* img.onload with a 2d context: the image is drawn and the promise resolves
ResizeImageLoads ==
    /\ request.fn = "resizeDesign"
    /\ reply = NoReply
    /\ reply' = ResizeDesign(request)
    /\ UNCHANGED <<uploadedImage, assets, isLoading, loadingMessage, error,
                   config, details, showApiKeys, runState, passed, errorTimers,
                   request, lastOp>>

\* if (!ctx) return reject(new Error('Could not get canvas context for resizing.'))
ResizeNoContext ==
    /\ request.fn = "resizeDesign"
    /\ reply = NoReply
    /\ reply' = Thrown("Error", <<"Could not get canvas context for resizing.">>)
    /\ UNCHANGED <<uploadedImage, assets, isLoading, loadingMessage, error,
                   config, details, showApiKeys, runState, passed, errorTimers,
                   request, lastOp>>

\* img.onerror = () => reject(new Error('Failed to load image for resizing.'))
ResizeImageError ==
    /\ request.fn = "resizeDesign"
    /\ reply = NoReply
    /\ reply' = Thrown("Error", <<"Failed to load image for resizing.">>)
    /\ UNCHANGED <<uploadedImage, assets, isLoading, loadingMessage, error,
                   config, details, showApiKeys, runState, passed, errorTimers,
                   request, lastOp>>

(***************************************************************************)
(* services/: generateProductDetails, from the response text to its        *)
(* result.  A JSON text is a sequence of tokens; the documents drawn are   *)
(* scalars, the empty array and objects whose members are scalars.         *)
(***************************************************************************)
\* the most members of an object drawn
MaxMembers == 3

\* string literals: the three keys, another key and a value
StringLiterals ==
    {"\"title\"", "\"description\"", "\"tags\"", "\"other\"", "\"Retro Sunset Tee\""}
KeyLiterals == {"\"title\"", "\"description\"", "\"tags\"", "\"other\""}
ScalarLiterals == StringLiterals \cup {"1", "null"}
ValueLiterals == {"\"Retro Sunset Tee\"", "1", "null"}

\* the string a literal denotes
Unquoted(literal) ==
    CASE literal = "\"title\"" -> "title"
      [] literal = "\"description\"" -> "description"
      [] literal = "\"tags\"" -> "tags"
      [] literal = "\"other\"" -> "other"
      [] literal = "\"Retro Sunset Tee\"" -> "Retro Sunset Tee"

\* typeof of the value a scalar literal denotes
TypeOfLiteral(literal) ==
    IF literal \in StringLiterals THEN "string"
    ELSE IF literal = "null" THEN "null"
    ELSE "number"

\* the text of an object with the given members, each <<key, value>>
RECURSIVE MembersText(_)
MembersText(members) ==
    IF members = <<>> THEN <<>>
    ELSE <<members[1][1], ":", members[1][2]>>
            \o (IF Len(members) = 1 THEN <<>> ELSE <<",">> \o MembersText(Tail(members)))

ObjectText(members) == <<"{">> \o MembersText(members) \o <<"}">>

MembersDrawn ==
    UNION {[1..k -> KeyLiterals \X ValueLiterals] : k \in 0..MaxMembers}

\* response.text as drawn: objects, the same cut short or with whitespace
\* around, other JSON documents, and text that is not JSON
DetailsTexts ==
    {ObjectText(m) : m \in MembersDrawn}
        \cup {<<"\n">> \o ObjectText(m) \o <<" ">> : m \in MembersDrawn}
        \cup {<<"{">> \o MembersText(m) : m \in MembersDrawn}
        \cup {<<"null">>, <<"1">>, <<"\"Retro Sunset Tee\"">>, <<"[", "]">>,
              <<"Sorry, I cannot help with that.">>, <<>>}

\* the text is "{", members separated by ",", "}"; a member is a string
\* literal, ":", a scalar
IsObjectText(text) ==
    /\ Len(text) >= 2
    /\ text[1] = "{"
    /\ text[Len(text)] = "}"
    /\ LET n == Len(text) - 2
       IN  \/ n = 0
           \/ /\ n % 4 = 3
              /\ \A i \in 1..n :
                    CASE i % 4 = 1 -> text[i + 1] \in StringLiterals
                      [] i % 4 = 2 -> text[i + 1] = ":"
                      [] i % 4 = 3 -> text[i + 1] \in ScalarLiterals
                      [] OTHER -> text[i + 1] = ","

\* the object an object text denotes: its keys, each with the type of the
\* value of its last occurrence
ObjectOf(text) ==
    LET n == (Len(text) - 1) \div 4
        keyAt(k) == Unquoted(text[4 * k - 2])
        keys == {keyAt(k) : k \in 1..n}
        last(key) == CHOOSE k \in 1..n :
                        /\ keyAt(k) = key
                        /\ \A j \in 1..n : keyAt(j) = key => j <= k
    IN  [type |-> "object",
         members |-> [key \in keys |-> TypeOfLiteral(text[4 * last(key)])]]

NoMembers == [key \in {} |-> "string"]

\* JSON.parse(text) for the documents above
JsonParse(text) ==
    IF Len(text) = 1 /\ text[1] \in ScalarLiterals
    THEN [ok |-> TRUE, value |-> [type |-> TypeOfLiteral(text[1]), members |-> NoMembers]]
    ELSE IF text = <<"[", "]">>
    THEN [ok |-> TRUE, value |-> [type |-> "array", members |-> NoMembers]]
    ELSE IF IsObjectText(text)
    THEN [ok |-> TRUE, value |-> ObjectOf(text)]
    ELSE [ok |-> FALSE, value |-> [type |-> "undefined", members |-> NoMembers]]

\* lines 263-264: JSON.parse(response.text.trim()) as ProductDetails
GenerateProductDetails(text) ==
    IF JsonParse(Trim(text)).ok
    THEN [kind |-> "details", value |-> JsonParse(Trim(text)).value]
    ELSE Thrown("SyntaxError", <<"Unexpected token">>)

InitProductDetails ==
    /\ Mounted
    /\ request \in [fn : {"generateProductDetails"}, text : DetailsTexts]
    /\ reply = NoReply

\* generateContent has resolved with request.text and the function returns
ProductDetailsReturned ==
    /\ request.fn = "generateProductDetails"
    /\ reply = NoReply
    /\ GenerateProductDetails(request.text).kind = "details"
    /\ reply' = GenerateProductDetails(request.text)
    /\ UNCHANGED <<uploadedImage, assets, isLoading, loadingMessage, error,
                   config, details, showApiKeys, runState, passed, errorTimers, request,
                   lastOp>>

\* ... and JSON.parse throws
ProductDetailsThrown ==
    /\ request.fn = "generateProductDetails"
    /\ reply = NoReply
    /\ GenerateProductDetails(request.text).kind = "error"
    /\ reply' = GenerateProductDetails(request.text)
    /\ UNCHANGED <<uploadedImage, assets, isLoading, loadingMessage, error,
                   config, details, showApiKeys, runState, passed, errorTimers, request,
                   lastOp>>

(***************************************************************************)
(* Specifications.  The continuations of a run are the same in both; the   *)
(* user's handlers are divided between them to keep the state spaces       *)
(* checkable.                                                              *)
(***************************************************************************)
RunCallbacks ==
    \/ AnalyzeResolves
    \/ AnalyzeRejects
    \/ CloneResolves
    \/ CloneRejects
    \/ RemoveBgResolves
    \/ RemoveBgRejects
    \/ ResizeResolves
    \/ ResizeRejects
    \/ MockupResolves
    \/ MockupRejects

\* Spec: runs, new images and changes of the product selection, at any time;
\* the keys stay as found at mount.
Next ==
    \/ HandleProductSelect
    \/ ProcessImageFileAccepted
    \/ HandleGenerateClick
    \/ RunCallbacks

Spec == Init /\ [][Next]_vars

\* SpecGuards: runs, every outcome of processImageFile, edits of the two keys
\* and dismissal of the error, at any time; the product selection stays the
\* initial one.
NextGuards ==
    \/ SetGeminiApiKey
    \/ SetPhotoroomApiKey
    \/ DismissError
    \/ ProcessImageFile
    \/ HandleGenerateClick
    \/ RunCallbacks

SpecGuards == Init /\ [][NextGuards]_vars

\* SpecDetails: runs, new images, edits of the Gemini key and requests for
\* the product details, at any time; the Photoroom key and the product
\* selection stay as found at mount.
NextDetails ==
    \/ SetGeminiApiKey
    \/ ProcessImageFileAccepted
    \/ HandleGenerateClick
    \/ RunCallbacks
    \/ HandleGenerateDetails
    \/ DetailsResolves
    \/ DetailsRejects

SpecDetails == Init /\ [][NextDetails]_vars

\* SpecInvalid: as SpecDetails, with every outcome of processImageFile, so
\* that a file that is not an image can arrive in any state of the pipeline
\* and of the product details.
NextInvalid ==
    \/ SetGeminiApiKey
    \/ ProcessImageFile
    \/ HandleGenerateClick
    \/ RunCallbacks
    \/ HandleGenerateDetails
    \/ DetailsResolves
    \/ DetailsRejects

SpecInvalid == Init /\ [][NextInvalid]_vars

\* SpecTermination: runs and new images at any time, where a pending
\* collaborator call does not stay pending for ever: some continuation of the
\* run is taken whenever one stays possible.
NextTermination ==
    \/ ProcessImageFileAccepted
    \/ HandleGenerateClick
    \/ RunCallbacks

SpecTermination ==
    Init /\ [][NextTermination]_vars /\ WF_vars(RunCallbacks)

\* SpecPrompts: one call of cloneDesign or createMockup, with every prompt
\* and every instructions text up to the bounds, composes its prompt.
NextPrompts ==
    \/ CloneDesignSendsPrompt
    \/ CreateMockupSendsPrompt

SpecPrompts == InitPrompts /\ [][NextPrompts]_vars

\* SpecGenerateImage: one call of generateImage settles, for every response
\* of the backend up to the bounds.
NextGenerateImage ==
    \/ GenerateImageResolves
    \/ GenerateImageRejects

SpecGenerateImage == InitGenerateImage /\ [][NextGenerateImage]_vars

\* SpecRemoveBackground: one call of removeBackground, with and without a
\* key, and every outcome of its request.
NextRemoveBackground ==
    \/ RemoveBackgroundNoKey
    \/ RemoveBackgroundFetches
    \/ FetchNotOk
    \/ FetchRejects
    \/ FetchOk
    \/ ReaderLoadEnd
    \/ ReaderError

SpecRemoveBackground == InitRemoveBackground /\ [][NextRemoveBackground]_vars

\* SpecProductDetails: one call of generateProductDetails settles, for every
\* response text drawn.
NextProductDetails ==
    \/ ProductDetailsReturned
    \/ ProductDetailsThrown

SpecProductDetails == InitProductDetails /\ [][NextProductDetails]_vars

\* the first image is dropped on the empty upload area
FirstImageAccepted ==
    /\ uploadedImage = NULL
    /\ ProcessImageFileAccepted

\* SpecConfig: one image, then runs with changes of the product selection,
\* the mode and the additional instructions at any time, also in mid-run.
NextConfig ==
    \/ FirstImageAccepted
    \/ HandleProductSelect
    \/ SetMode
    \/ SaveInstructions
    \/ HandleGenerateClick
    \/ RunCallbacks

SpecConfig == Init /\ [][NextConfig]_vars

\* Object.keys(PRODUCTS).slice(0, 4) over the selector's catalogue
CatalogueInitialSelection ==
    [i \in 1..Min(InitialSelectionSize, CatalogueSize) |-> i]

InitSelection ==
    /\ MountedSelecting(CatalogueInitialSelection)
    /\ request = NoRequest
    /\ reply = NoReply

\* SpecSelection: the product selector alone, over a catalogue of more than
\* six products, with the timers that clear its error.
NextSelection ==
    \/ HandleCatalogueSelect
    \/ ErrorTimerFires

SpecSelection == InitSelection /\ [][NextSelection]_vars

\* SpecResize: one call of resizeDesign settles, for every source size drawn.
NextResize ==
    \/ ResizeImageLoads
    \/ ResizeNoContext
    \/ ResizeImageError

SpecResize == InitResize /\ [][NextResize]_vars

\* SpecExtract: one call of extractDesignPrompt settles, for every response
\* text up to the bound.
NextExtract ==
    \/ ExtractReturns
    \/ ExtractThrows

SpecExtract == InitExtract /\ [][NextExtract]_vars

(***************************************************************************)
(* Properties                                                              *)
(***************************************************************************)
Terminal(st) == st \in {SUCCESS, FAILED}

MockupIndexes == 1..Len(mockups)

\* the state in which a run has just ended: its last continuation ran last
RunJustFinished == ~isLoading /\ lastOp = "callback"

\* C1: when handleGenerateClick is invoked with an empty Gemini key, the
\* top-level error is set, no collaborator call is issued and no run starts,
\* and clonedDesign, removedBgDesign, resizedDesign, mockups and isLoading
\* are left unchanged.
C1_CredentialGuard ==
    [][(lastOp' = "handleGenerateClick" /\ geminiApiKey = "")
          => /\ error' = ErrNoKey
             /\ issued' = issued
             /\ callState' = callState
             /\ run' = run
             /\ ~run'.active
             /\ \A c \in Calls : callState'[c] # "pending"
             /\ UNCHANGED <<clonedDesign, removedBgDesign, resizedDesign, mockups,
                            isLoading>>]_vars

\* C1 witness: the handler ran with an empty key after an earlier run had
\* produced a design.
C1_Witness ==
    /\ lastOp = "handleGenerateClick"
    /\ geminiApiKey = ""
    /\ error = ErrNoKey
    /\ clonedDesign.status = SUCCESS

\* C2: cloneDesign is called only after analyzeImageColor has resolved,
\* removeBackground only after cloneDesign has resolved, resizeDesign only
\* after removeBackground has resolved, createMockup only after resizeDesign
\* has resolved; at most one critical-path call is outstanding at a time.
C2_CriticalPathOrder ==
    /\ issued[CLONE] > 0 => callState[ANALYZE] = "ok"
    /\ issued[REMOVEBG] > 0 => callState[CLONE] = "ok"
    /\ issued[RESIZE] > 0 => callState[REMOVEBG] = "ok"
    /\ \A p \in ProductIds : issued[MOCKUP(p)] > 0 => callState[RESIZE] = "ok"
    /\ \A c \in Calls : callState[c] # "none" => issued[c] > 0
    /\ Cardinality({c \in CriticalCalls : callState[c] = "pending"}) <= 1

\* C2 witness: the run has reached the fan-out, every earlier stage resolved.
C2_Witness ==
    /\ isLoading
    /\ \E p \in ProductIds : callState[MOCKUP(p)] = "pending"
    /\ callState[RESIZE] = "ok"

\* C3: if removeBackground rejects then resizeDesign is never called in that
\* run, resizedDesign ends the run Failed, and every mockup item ends the
\* run Failed with no createMockup call issued.
C3_BackgroundRemovalFailure ==
    (RunJustFinished /\ callState[REMOVEBG] = "err")
        => /\ issued[RESIZE] = 0
           /\ resizedDesign.status = FAILED
           /\ \A i \in MockupIndexes : mockups[i].status = FAILED
           /\ \A p \in ProductIds : issued[MOCKUP(p)] = 0

\* C4: if cloneDesign rejects then removeBackground and resizeDesign are
\* never called in that run, removedBgDesign and resizedDesign end the run
\* Failed, every mockup item ends Failed, and the top-level error is set.
C4_CloneFailure ==
    (RunJustFinished /\ callState[CLONE] = "err")
        => /\ issued[REMOVEBG] = 0
           /\ issued[RESIZE] = 0
           /\ removedBgDesign.status = FAILED
           /\ resizedDesign.status = FAILED
           /\ \A i \in MockupIndexes : mockups[i].status = FAILED
           /\ error # NoError

\* C5: when a run finishes, each of clonedDesign, removedBgDesign and
\* resizedDesign and every mockup item has a terminal status.
C5_Completion ==
    RunJustFinished
        => /\ Terminal(clonedDesign.status)
           /\ Terminal(removedBgDesign.status)
           /\ Terminal(resizedDesign.status)
           /\ \A i \in MockupIndexes : Terminal(mockups[i].status)

\* C6: an asset that reached Success in a run is not changed to any other
\* status by a later continuation of the same run.
C6_SuccessIsFinal ==
    [][(isLoading /\ lastOp' = "callback")
          => /\ clonedDesign.status = SUCCESS => clonedDesign'.status = SUCCESS
             /\ removedBgDesign.status = SUCCESS => removedBgDesign'.status = SUCCESS
             /\ resizedDesign.status = SUCCESS => resizedDesign'.status = SUCCESS]_vars

\* C7: for each staged asset and each mockup item, imageUrl is present if
\* and only if status is Success.
C7_ImageIffSuccess ==
    /\ (clonedDesign.imageUrl # NULL) <=> (clonedDesign.status = SUCCESS)
    /\ (removedBgDesign.imageUrl # NULL) <=> (removedBgDesign.status = SUCCESS)
    /\ (resizedDesign.imageUrl # NULL) <=> (resizedDesign.status = SUCCESS)
    /\ \A i \in MockupIndexes :
          (mockups[i].imageUrl # NULL) <=> (mockups[i].status = SUCCESS)

\* C7 witness: a run ended by a failed resize after two successful stages.
C7_Witness ==
    /\ RunJustFinished
    /\ callState[RESIZE] = "err"
    /\ clonedDesign.status = SUCCESS
    /\ removedBgDesign.status = FAILED
    /\ \E i \in MockupIndexes : mockups[i].status = FAILED

\* C8 as claimed: right after a run starts, all three staged assets are
\* Pending and mockups holds one Pending item per selected product.
C8_AllPendingAtStart ==
    [][(~isLoading /\ isLoading')
          => /\ clonedDesign'.status = PENDING
             /\ removedBgDesign'.status = PENDING
             /\ resizedDesign'.status = PENDING
             /\ Len(mockups') = Len(selectedProducts)
             /\ \A i \in 1..Len(selectedProducts) :
                   /\ mockups'[i].id = selectedProducts[i]
                   /\ mockups'[i].status = PENDING]_vars

\* C8 as amended: right after a run starts, clonedDesign is Pending,
\* removedBgDesign and resizedDesign are Idle, none holds an image, and
\* mockups holds one Pending item per selected product, in order (none when
\* no product is selected).
C8_RunInitialization ==
    [][(~isLoading /\ isLoading')
          => /\ clonedDesign' = Asset(PENDING, NULL)
             /\ removedBgDesign' = Asset(IDLE, NULL)
             /\ resizedDesign' = Asset(IDLE, NULL)
             /\ Len(mockups') = Len(selectedProducts)
             /\ \A i \in 1..Len(selectedProducts) :
                   /\ mockups'[i].id = selectedProducts[i]
                   /\ mockups'[i].status = PENDING
                   /\ mockups'[i].imageUrl = NULL]_vars

\* C8 witness: a second run has just started, after a run that succeeded.
C8_Witness ==
    /\ lastOp = "handleGenerateClick"
    /\ isLoading
    /\ run.removedBgStatus = SUCCESS
    /\ removedBgDesign.status = IDLE
    /\ Len(mockups) > 0

\* C9: when the fan-out of a run has ended, every item whose createMockup
\* call rejected is Failed and every item whose call resolved is Success
\* with its own image, and every product called has its item.
C9_PartialFailureIsolation ==
    (RunJustFinished /\ callState[RESIZE] = "ok")
        => /\ \A i \in MockupIndexes :
                 /\ callState[MOCKUP(mockups[i].id)] \in {"ok", "err"}
                 /\ callState[MOCKUP(mockups[i].id)] = "err"
                       => mockups[i].status = FAILED
                 /\ callState[MOCKUP(mockups[i].id)] = "ok"
                       => /\ mockups[i].status = SUCCESS
                          /\ mockups[i].imageUrl = MockupUrl(mockups[i].id)
           /\ mockups # <<>>
                 => \A p \in ProductIds :
                       issued[MOCKUP(p)] > 0 => \E i \in MockupIndexes : mockups[i].id = p

\* C9 witness: a run has ended with one item Failed and another Success.
C9_Witness ==
    /\ RunJustFinished
    /\ \E i, j \in MockupIndexes :
          /\ mockups[i].status = FAILED
          /\ mockups[j].status = SUCCESS
          /\ callState[MOCKUP(mockups[i].id)] = "err"

\* C10: the createMockup calls of all selected products are issued in one
\* step, before any has resolved; when one call resolves or rejects, its
\* item becomes terminal in that step, and every other item keeps its status
\* and image.
C10_NoLostUpdates ==
    [][/\ (callState[RESIZE] = "pending" /\ callState'[RESIZE] = "ok")
             => \A i \in 1..Len(run.selectedProducts) :
                   callState'[MOCKUP(run.selectedProducts[i])] = "pending"
       /\ \A p \in ProductIds :
             (issued'[MOCKUP(p)] # issued[MOCKUP(p)] /\ issued'[MOCKUP(p)] > 0)
                => \A q \in ProductIds : callState[MOCKUP(q)] = "none"
       /\ \A p \in ProductIds :
             (callState[MOCKUP(p)] = "pending" /\ callState'[MOCKUP(p)] # "pending")
                => /\ Len(mockups') = Len(mockups)
                   /\ \A i \in MockupIndexes :
                         IF mockups[i].id = p
                         THEN mockups'[i].status =
                                 (IF callState'[MOCKUP(p)] = "ok" THEN SUCCESS ELSE FAILED)
                         ELSE mockups'[i] = mockups[i]]_vars

\* C10 witness: one item has its result while a sibling's call is pending.
C10_Witness ==
    \E i, j \in MockupIndexes :
        /\ mockups[i].status = SUCCESS
        /\ mockups[j].status = PENDING
        /\ callState[MOCKUP(mockups[j].id)] = "pending"


\* C11: a continuation of a run none of whose critical-path calls has
\* rejected leaves the top-level error as it was, and once resizeDesign has
\* resolved (the createMockup calls are settling, resolved or rejected) it
\* leaves clonedDesign, removedBgDesign and resizedDesign as they were.
C11_MockupFailureContained ==
    [][(lastOp' = "callback" /\ \A c \in CriticalCalls : callState'[c] # "err")
          => /\ error' = error
             /\ callState[RESIZE] = "ok"
                   => UNCHANGED <<clonedDesign, removedBgDesign, resizedDesign>>]_vars

\* a run has ended in which every createMockup call rejected: no top-level
\* error, the three staged assets Success
C11_Witness ==
    /\ RunJustFinished
    /\ callState[RESIZE] = "ok"
    /\ \A p \in ProductIds : callState[MOCKUP(p)] = "err"
    /\ error = NoError
    /\ clonedDesign.status = SUCCESS
    /\ removedBgDesign.status = SUCCESS
    /\ resizedDesign.status = SUCCESS

\* C12: when processImageFile has accepted a new image while a run is in
\* flight, the continuation of that superseded run that comes next changes
\* none of clonedDesign, removedBgDesign, resizedDesign, mockups and the
\* top-level error, which keep the values of the reset.
C12_NoStaleOverwrite ==
    [][(lastOp = "processImageFile" /\ isLoading /\ lastOp' = "callback")
          => UNCHANGED <<clonedDesign, removedBgDesign, resizedDesign, mockups,
                         error>>]_vars

\* C13: when a run has just started or a new image has just been accepted
\* (productDetails is cleared) and a generateProductDetails call issued before
\* that point is still in flight, the next step does not populate
\* productDetails.
C13_StaleDetailsDiscarded ==
    [][(/\ lastOp = "processImageFile" \/ (lastOp = "handleGenerateClick" /\ isLoading)
        /\ productDetails = "null"
        /\ detailsCall # "none")
          => productDetails' = "null"]_vars

\* C14 as stated: the latest run has issued each collaborator call at most
\* once, and removeBackground has made exactly one network request per call.
C14_ExactlyOneRequest ==
    /\ \A c \in Calls : issued[c] <= 1
    /\ issued[FETCH] = issued[REMOVEBG]

\* C14: the latest run has issued each of analyzeImageColor, cloneDesign,
\* removeBackground and resizeDesign at most once and createMockup at most
\* once per product, whatever has resolved or rejected; removeBackground has
\* made at most one network request per call: one when it was given a key,
\* none when the key was empty.
C14_NoAutomaticRetry ==
    /\ \A c \in Calls : issued[c] <= 1
    /\ issued[FETCH] <= issued[REMOVEBG]
    /\ (run.active /\ issued[REMOVEBG] = 1)
          => issued[FETCH] = (IF run.photoroomApiKey = "" THEN 0 ELSE 1)

\* a run has ended on the rejection of a removeBackground call that was given
\* an empty key: one call, no request
C14_Witness ==
    /\ RunJustFinished
    /\ callState[REMOVEBG] = "err"
    /\ error = ErrPhotoroomKey
    /\ issued[REMOVEBG] = 1
    /\ issued[FETCH] = 0

\* C15: when no run is in flight, resizedDesign is Success and a mockup item
\* is Failed, the card of that item offers the user a retry of that item.
C15_RetryAvailable ==
    \A i \in MockupIndexes :
        (~isLoading /\ resizedDesign.status = SUCCESS /\ mockups[i].status = FAILED)
            => RetryButtonRendered(mockups[i])

\* the prompt of the call under evaluation has been composed
Composed(fn) == request.fn = fn /\ reply.kind = "prompt"

\* the text ends with the clause "on a solid black background" or "on a solid
\* white background", in any letter case, whatever precedes it
EndsWithClause(text) ==
    /\ text # <<>>
    /\ ToLowerCase(text[Len(text)]) \in {BlackClause, WhiteClause}

\* the instructions are given and not empty after trimming
NonBlank(instr) == instr.given /\ Trim(instr.text) # <<>>

\* C16: for an extracted prompt that ends with the background clause and
\* instructions that are non-empty after trimming, the prompt cloneDesign
\* sends ends with the identical clause, and the marker "Additional
\* instructions: " followed by the instructions comes directly before it.
C16_BackgroundClauseStaysLast ==
    (/\ Composed("cloneDesign")
     /\ EndsWithClause(request.extractedPrompt)
     /\ NonBlank(request.additionalInstructions))
        => LET clause == request.extractedPrompt[Len(request.extractedPrompt)]
               marked == <<AdditionalMarker>> \o request.additionalInstructions.text
           IN  \/ EndsWith(reply.prompt, marked \o <<clause>>)
               \/ EndsWith(reply.prompt, marked \o <<" ", clause>>)

\* C17: for an extracted prompt that does not end with the background clause
\* and instructions that are non-empty after trimming, the prompt cloneDesign
\* sends is the extracted prompt, two newlines, "Additional instructions: "
\* and the instructions; the extracted prompt is a prefix of it.
C17_FallbackAppends ==
    (/\ Composed("cloneDesign")
     /\ ~EndsWithClause(request.extractedPrompt)
     /\ NonBlank(request.additionalInstructions))
        => /\ reply.prompt = request.extractedPrompt
                                \o <<"\n", "\n", "Additional instructions: ">>
                                \o request.additionalInstructions.text
           /\ SubSeq(reply.prompt, 1, Len(request.extractedPrompt))
                 = request.extractedPrompt

\* a prompt ending in whitespace, without the clause, has been composed with
\* instructions
C17_Witness ==
    /\ Composed("cloneDesign")
    /\ ~EndsWithClause(request.extractedPrompt)
    /\ NonBlank(request.additionalInstructions)
    /\ request.extractedPrompt # <<>>
    /\ request.extractedPrompt[Len(request.extractedPrompt)] \in Whitespace
    /\ Len(reply.prompt) > Len(request.extractedPrompt)

\* C18: with the instructions absent, empty or whitespace-only, the prompt
\* cloneDesign sends is exactly the extracted prompt.
C18_NoInstructionsNoChange ==
    (Composed("cloneDesign") /\ ~NonBlank(request.additionalInstructions))
        => reply.prompt = request.extractedPrompt

\* whitespace-only instructions have been given with a prompt that ends with
\* the clause after a space
C18_Witness ==
    /\ Composed("cloneDesign")
    /\ request.additionalInstructions.given
    /\ request.additionalInstructions.text # <<>>
    /\ ~NonBlank(request.additionalInstructions)
    /\ BackgroundInstructionMatch(request.extractedPrompt)
    /\ reply.prompt = request.extractedPrompt

\* C19: the prompt createMockup sends is the base mockup prompt, two
\* newlines, "ADDITIONAL INSTRUCTIONS: " and the instructions when these are
\* non-empty after trimming, and exactly the base mockup prompt otherwise; the
\* base mockup prompt is a prefix of it in both cases.
C19_MockupPromptComposition ==
    Composed("createMockup")
        => LET base == BaseMockupPrompt(request.productPrompt, request.productColorHex)
           IN  /\ reply.prompt =
                    IF NonBlank(request.additionalInstructions)
                    THEN base \o <<"\n", "\n", "ADDITIONAL INSTRUCTIONS: ">>
                              \o request.additionalInstructions.text
                    ELSE base
               /\ SubSeq(reply.prompt, 1, Len(base)) = base

\* a mockup prompt has been composed with instructions that have whitespace
\* around them
C19_Witness ==
    /\ Composed("createMockup")
    /\ NonBlank(request.additionalInstructions)
    /\ Trim(request.additionalInstructions.text) # request.additionalInstructions.text
    /\ Len(reply.prompt) > Len(BaseMockupPrompt(request.productPrompt,
                                                request.productColorHex))

\* C20: for a response that carries a block reason, generateImage throws the
\* blocked-content error, its message containing the reason, whatever safety
\* ratings, parts, image data and text the response carries; it returns no
\* image.
C20_BlockPrecedence ==
    (/\ request.fn = "generateImage"
     /\ reply # NoReply
     /\ request.response.blockReason # "")
        => /\ reply.kind = "error"
           /\ reply.error = "BlockedContent"
           /\ \E i \in 1..Len(reply.message) :
                 reply.message[i] = request.response.blockReason

\* a response with a block reason, a harmful rating and an image part has
\* been classified
C20_Witness ==
    /\ request.fn = "generateImage"
    /\ reply # NoReply
    /\ request.response.blockReason # ""
    /\ HarmfulRating(request.response) # 0
    /\ ImagePartIndex(request.response) # 0
    /\ reply.kind = "error"

\* C21: generateImage returns an image exactly when the response has no
\* block reason, no safety rating of HIGH or MEDIUM probability and at least
\* one part with image data; the payload returned is that of the first such
\* part in part order.
C21_ImageIffClean ==
    (request.fn = "generateImage" /\ reply # NoReply)
        => LET r == request.response
               images == {i \in 1..Len(r.parts) : r.parts[i].inlineData # ""}
           IN  /\ reply.kind = "image"
                     <=> /\ r.blockReason = ""
                         /\ \A i \in 1..Len(r.safetyRatings) :
                               r.safetyRatings[i].probability \notin {"HIGH", "MEDIUM"}
                         /\ images # {}
               /\ reply.kind = "image"
                     => \E i \in images :
                           /\ \A j \in images : i <= j
                           /\ reply.url = <<"data:image/png;base64,", r.parts[i].inlineData>>

\* an image has been returned from a response with two different image parts
C21_Witness ==
    /\ request.fn = "generateImage"
    /\ reply # NoReply
    /\ reply.kind = "image"
    /\ \E i, j \in 1..Len(request.response.parts) :
          /\ i < j
          /\ request.response.parts[i].inlineData # ""
          /\ request.response.parts[j].inlineData # ""
          /\ request.response.parts[i].inlineData # request.response.parts[j].inlineData

\* the message contains the token
Carries(message, token) == \E i \in 1..Len(message) : message[i] = token

\* C22: removeBackground called with an empty key fails with the
\* missing-credential error without having made a request; when the response
\* is not ok it fails with a backend error whose message carries the status
\* and the error body of the response.
C22_RemoveBackgroundErrors ==
    (request.fn = "removeBackground" /\ reply.kind = "error")
        => /\ request.apiKey = ""
                 => /\ reply.error = "MissingCredential"
                    /\ reply.message = <<"Photoroom API key is missing.">>
                    /\ reply.requests = 0
           /\ reply.error = "BackendError"
                 => /\ Carries(reply.message, reply.response.status)
                    /\ Carries(reply.message, reply.response.body)

\* C23: a value returned by generateProductDetails is an object with exactly
\* the members title, description and tags, each a string; for every other
\* response text the function fails.
C23_DetailsWellFormed ==
    (request.fn = "generateProductDetails" /\ reply.kind = "details")
        => /\ reply.value.type = "object"
           /\ DOMAIN reply.value.members = {"title", "description", "tags"}
           /\ \A key \in DOMAIN reply.value.members :
                 reply.value.members[key] = "string"

\* C24: when analyzeImageColor rejects, the run has called nothing else and
\* calls nothing more; when it resolves, the assets, the mockups and the error
\* are as they were, so a rejection of cloneDesign meets the same state; and
\* the rejection of either call ends the run with the same updates: the error
\* set, and the assets and mockups as the one catch block leaves them.
C24_AnalysisFailureLikeCloneFailure ==
    [][/\ (callState[ANALYZE] = "pending" /\ callState'[ANALYZE] = "err")
            => \A c \in Calls \ {ANALYZE} : issued'[c] = 0 /\ callState'[c] = "none"
       /\ (callState[ANALYZE] = "pending" /\ callState'[ANALYZE] = "ok")
            => UNCHANGED <<clonedDesign, removedBgDesign, resizedDesign, mockups,
                           error, run>>
       /\ \A c \in {ANALYZE, CLONE} :
            (callState[c] = "pending" /\ callState'[c] = "err")
                => /\ error' # NoError
                   /\ ~isLoading'
                   /\ clonedDesign' = CatchCloned(run, clonedDesign)
                   /\ removedBgDesign' = CatchRemovedBg(run, removedBgDesign)
                   /\ resizedDesign' = CatchResized(run, resizedDesign)
                   /\ mockups' = CatchMockups(run, mockups)
                   /\ \A d \in Calls : callState'[d] # "pending"]_vars

\* a run has ended on the rejection of analyzeImageColor: the error is set and
\* every mockup item is Failed
C24_Witness ==
    /\ RunJustFinished
    /\ callState[ANALYZE] = "err"
    /\ error # NoError
    /\ mockups # <<>>
    /\ \A i \in MockupIndexes : mockups[i].status = FAILED

(***************************************************************************)
(* C25: the configuration of a run is fixed when the run starts            *)
(***************************************************************************)
RunStarts == ~isLoading /\ isLoading'

InFlight == isLoading /\ isLoading'

MockupIds(ms) == [i \in 1..Len(ms) |-> ms[i].id]

Range(seq) == {seq[i] : i \in 1..Len(seq)}

\* the products for which the step issues a createMockup call
MockupsIssued == {p \in ProductIds : issued'[MOCKUP(p)] > issued[MOCKUP(p)]}

\* the calls taking the instructions argument that the step issues
InstructedIssued ==
    {c \in {CLONE} \cup {MOCKUP(p) : p \in ProductIds} : issued'[c] > issued[c]}

\* C25: a run captures the product selection and the instructions it passes
\* (the additional instructions in redesign mode, none in cloner mode) from
\* the state at its start; while it is in flight the captured values do not
\* change, whatever selection, mode or instructions are set meanwhile; its
\* createMockup calls are issued for exactly the captured products, its
\* cloneDesign and createMockup calls are given the captured instructions,
\* and its mockup collection keeps the captured products as its members.
C25_RunConfigurationFixed ==
    [][ /\ RunStarts =>
            /\ run'.selectedProducts = selectedProducts
            /\ run'.instructionsToPass = InstructionsToPass(mode, additionalInstructions)
            /\ MockupIds(mockups') = selectedProducts
        /\ InFlight =>
            /\ run' = run
            /\ MockupIds(mockups') = run.selectedProducts
            /\ \A c \in InstructedIssued : passed'[c] = run.instructionsToPass
            /\ MockupsIssued # {} => MockupsIssued = Range(run.selectedProducts)
        /\ ~isLoading => MockupsIssued = {} ]_vars

\* a run whose selection, mode and instructions were all changed in flight
\* has issued its createMockup calls, with the instructions of its start
C25_Witness ==
    /\ isLoading
    /\ callState[RESIZE] = "ok"
    /\ selectedProducts # run.selectedProducts
    /\ run.selectedProducts # <<>>
    /\ mode # run.mode
    /\ run.instructionsToPass = "make it blue"
    /\ additionalInstructions = ""
    /\ \A p \in Range(run.selectedProducts) :
          issued[MOCKUP(p)] = 1 /\ passed[MOCKUP(p)] = "make it blue"
    /\ passed[CLONE] = "make it blue"

(***************************************************************************)
(* C26: the mockup collection of a run                                     *)
(***************************************************************************)
ImageUploaded == lastOp' = "processImageFile"

SameItems(before, after) ==
    /\ Len(after) = Len(before)
    /\ \A i \in 1..Len(before) :
          after[i].id = before[i].id /\ after[i].name = before[i].name

\* C26: a run start replaces the mockup collection by one Pending item
\* without image per selected product, in the order of the selection (the
\* empty collection when nothing is selected); every other step that is not
\* an image upload keeps the items, their ids and their order, and changes
\* at most status and imageUrl.
C26_MockupCollection ==
    [][ /\ RunStarts => mockups' = PendingMockups(selectedProducts)
        /\ (~RunStarts /\ ~ImageUploaded) => SameItems(mockups, mockups') ]_vars

\* a run has just started with a selection other than the initial one: its
\* items are all pending, one per selected product
C26_Witness ==
    /\ lastOp = "handleGenerateClick"
    /\ isLoading
    /\ selectedProducts # InitialSelection
    /\ selectedProducts # <<>>
    /\ mockups = PendingMockups(selectedProducts)

\* while a run is in flight the selection differs from the collection, which
\* holds a result for one product and a pending item for another
C26_WitnessUpdated ==
    /\ isLoading
    /\ Len(mockups) > 1
    /\ MockupIds(mockups) # selectedProducts
    /\ \E i, j \in MockupIndexes :
          /\ mockups[i].status = SUCCESS /\ mockups[i].imageUrl # NULL
          /\ mockups[j].status = PENDING /\ mockups[j].imageUrl = NULL

(***************************************************************************)
(* C27: the mockup batch is joined                                         *)
(***************************************************************************)
MockupPending(cs) == \E c \in MockupCalls : cs[c] = "pending"

\* C27: while a createMockup call of the run is unresolved the run is not
\* reported finished (isLoading is true), and the step in which the last
\* unresolved call resolves or rejects reports it finished.
C27_BatchJoined ==
    [][ /\ MockupPending(callState) => isLoading
        /\ MockupPending(callState') => isLoading'
        /\ (MockupPending(callState) /\ ~MockupPending(callState')) => ~isLoading' ]_vars

\* resize has succeeded, one createMockup call has rejected and another is
\* still unresolved: the run is still loading
C27_Witness ==
    /\ callState[RESIZE] = "ok"
    /\ resizedDesign.status = SUCCESS
    /\ isLoading
    /\ \E c, d \in MockupCalls : callState[c] = "err" /\ callState[d] = "pending"

\* the last createMockup call has just settled, after a success and a
\* failure: the run is reported finished
C27_WitnessFinished ==
    /\ lastOp = "callback"
    /\ ~isLoading
    /\ callState[RESIZE] = "ok"
    /\ \E c, d \in MockupCalls : callState[c] = "err" /\ callState[d] = "ok"
    /\ ~MockupPending(callState)

(***************************************************************************)
(* C28: the bound of the product selection                                 *)
(***************************************************************************)
NoDuplicates(seq) == \A i, j \in 1..Len(seq) : seq[i] = seq[j] => i = j

\* the step is a call of handleProductSelect
ProductSelected == lastOp' = "config"

\* C28: the selection never holds more than 6 ids nor an id twice; a call of
\* handleProductSelect either removes exactly the one selected id it was
\* given, keeping the others in order, or appends one unselected id when
\* fewer than 6 are selected, or, when 6 are selected and the id is not among
\* them, leaves the selection as it is and sets the error.
C28_SelectionBound ==
    [][ /\ Len(selectedProducts) <= MaxSelected /\ NoDuplicates(selectedProducts)
        /\ Len(selectedProducts') <= MaxSelected /\ NoDuplicates(selectedProducts')
        /\ ProductSelected =>
              \/ \E p \in Range(selectedProducts) :
                    /\ selectedProducts' = Without(selectedProducts, p)
                    /\ Len(selectedProducts') = Len(selectedProducts) - 1
                    /\ Range(selectedProducts') = Range(selectedProducts) \ {p}
                    /\ error' = error
              \/ \E p \in Catalogue \ Range(selectedProducts) :
                    /\ Len(selectedProducts) < MaxSelected
                    /\ selectedProducts' = Append(selectedProducts, p)
                    /\ error' = error
              \/ /\ Len(selectedProducts) = MaxSelected
                 /\ selectedProducts' = selectedProducts
                 /\ error' = ErrMaxMockups ]_vars

\* with six products selected a seventh was asked for: the selection is
\* still the six, without repetition, and the error is set
C28_Witness ==
    /\ lastOp = "config"
    /\ Len(selectedProducts) = MaxSelected
    /\ NoDuplicates(selectedProducts)
    /\ Range(selectedProducts) # Catalogue
    /\ error = ErrMaxMockups
    /\ errorTimers > 0

(***************************************************************************)
(* C29: the geometry of resizeDesign                                       *)
(***************************************************************************)
Resized == request.fn = "resizeDesign" /\ reply.kind = "canvas"

\* the horizontal ratio 4500/w is the smaller one, or both are equal
WidthBound(img) == TargetWidth * img.height <= TargetHeight * img.width

\* x + size + x = target, for a signed offset x
Centered(offset, size, target) ==
    IF offset.negative
    THEN size = Plus(Number(target), Times(offset.magnitude, 2))
    ELSE Plus(size, Times(offset.magnitude, 2)) = Number(target)

\* C29 as stated: the canvas is 4500 x 5400; the drawn size is exactly
\* (w*r, h*r) with r = min(4500/w, 5400/h), so it has the aspect ratio of
\* the source, lies inside the canvas, spans it along one axis, and has
\* equal margins left and right, and top and bottom.
C29_ResizeGeometryExact ==
    Resized =>
        /\ reply.width = TargetWidth /\ reply.height = TargetHeight
        /\ IF WidthBound(request)
           THEN /\ reply.drawn.width = Number(TargetWidth)
                /\ Times(reply.drawn.height, request.width)
                      = Number(TargetWidth * request.height)
           ELSE /\ reply.drawn.height = Number(TargetHeight)
                /\ Times(reply.drawn.width, request.height)
                      = Number(TargetHeight * request.width)
        /\ Times(reply.drawn.width, request.height)
              = Times(reply.drawn.height, request.width)
        /\ LessEq(reply.drawn.width, Number(TargetWidth))
        /\ LessEq(reply.drawn.height, Number(TargetHeight))
        /\ ~reply.drawn.x.negative /\ ~reply.drawn.y.negative
        /\ \/ reply.drawn.width = Number(TargetWidth)
           \/ reply.drawn.height = Number(TargetHeight)
        /\ Centered(reply.drawn.x, reply.drawn.width, TargetWidth)
        /\ Centered(reply.drawn.y, reply.drawn.height, TargetHeight)

\* 2^-30 of a pixel
Tolerance == Zeros(FractionDigits - 2) \o <<1>>

Near(a, b) == LessEq(Distance(a, b), Tolerance)

\* |x + size + x - target| is within the tolerance
NearlyCentered(offset, size, target) ==
    IF offset.negative
    THEN Near(size, Plus(Number(target), Times(offset.magnitude, 2)))
    ELSE Near(Plus(size, Times(offset.magnitude, 2)), Number(target))

\* C29, amended: the canvas is exactly 4500 x 5400; the drawn size and the
\* offsets are computed in double arithmetic, and each statement of the claim
\* holds to within 2^-30 of a pixel: the drawn size is that near (w*r, h*r),
\* exceeds the canvas by no more than that, reaches that near the full canvas
\* along one axis, and the opposite margins differ by no more than that.
C29_ResizeGeometryRounded ==
    Resized =>
        /\ reply.width = TargetWidth /\ reply.height = TargetHeight
        /\ IF WidthBound(request)
           THEN /\ Near(reply.drawn.width, Number(TargetWidth))
                /\ LessEq(Distance(Times(reply.drawn.height, request.width),
                                   Number(TargetWidth * request.height)),
                          Times(Tolerance, request.width))
           ELSE /\ Near(reply.drawn.height, Number(TargetHeight))
                /\ LessEq(Distance(Times(reply.drawn.width, request.height),
                                   Number(TargetHeight * request.width)),
                          Times(Tolerance, request.height))
        /\ LessEq(reply.drawn.width, Plus(Number(TargetWidth), Tolerance))
        /\ LessEq(reply.drawn.height, Plus(Number(TargetHeight), Tolerance))
        /\ reply.drawn.x.negative => LessEq(reply.drawn.x.magnitude, Tolerance)
        /\ reply.drawn.y.negative => LessEq(reply.drawn.y.magnitude, Tolerance)
        /\ \/ Near(reply.drawn.width, Number(TargetWidth))
           \/ Near(reply.drawn.height, Number(TargetHeight))
        /\ NearlyCentered(reply.drawn.x, reply.drawn.width, TargetWidth)
        /\ NearlyCentered(reply.drawn.y, reply.drawn.height, TargetHeight)

\* a source 1067 wide and 1 high was resized: the drawn width is more than
\* 4500 and the x offset is negative, both by less than the tolerance
C29_Witness ==
    /\ Resized
    /\ request.width = 1067 /\ request.height = 1
    /\ ~LessEq(reply.drawn.width, Number(TargetWidth))
    /\ reply.drawn.x.negative
    /\ Near(reply.drawn.width, Number(TargetWidth))

(***************************************************************************)
(* C30: the order in which generateImage classifies a response             *)
(***************************************************************************)
Blank(text) == Trim(text) = <<>>

\* the message contains the text, token for token
CarriesText(message, text) ==
    \E i \in 1..Len(message) :
        /\ i + Len(text) - 1 <= Len(message)
        /\ SubSeq(message, i, i + Len(text) - 1) = text

\* the texts of the response from which a text-instead-of-image error may
\* quote: those of its parts and response.text
TextsOf(response) ==
    {response.parts[i].text : i \in 1..Len(response.parts)} \cup {response.text}

\* C30: a response that yields no image is classified by the first of these
\* that applies: a block reason (blocked); a HIGH or MEDIUM rating (filtered,
\* naming the category of the first such rating); no parts (the
\* empty-response error when the response text is blank, else an error with
\* that text); parts without image data (the text-instead-of-image error,
\* quoting the text as it is, when the text of a part or the response text is
\* not blank, else the no-image error).
C30_ClassificationOrder ==
    (request.fn = "generateImage" /\ reply.kind = "error")
        => LET r == request.response
               harmful == {i \in 1..Len(r.safetyRatings) :
                              r.safetyRatings[i].probability \in {"HIGH", "MEDIUM"}}
           IN  IF r.blockReason # ""
               THEN reply.error = "BlockedContent"
               ELSE IF harmful # {}
               THEN /\ reply.error = "FilteredContent"
                    /\ CarriesText(reply.message,
                                   CategoryText(r.safetyRatings[Find(harmful)].category))
               ELSE IF Len(r.parts) = 0
               THEN IF Blank(r.text)
                    THEN reply.error = "EmptyResponse"
                    ELSE /\ reply.error = "BackendText"
                         /\ CarriesText(reply.message, Trim(r.text))
               ELSE IF \E t \in TextsOf(r) : ~Blank(t)
               THEN /\ reply.error = "TextOnlyResponse"
                    /\ \E t \in TextsOf(r) : ~Blank(t) /\ CarriesText(reply.message, t)
               ELSE reply.error = "NoImageReturned"

(***************************************************************************)
(* C31: the clone prompt when the background clause is found               *)
(***************************************************************************)
\* the text has two periods in a row at positions i, i + 1
DoublePeriodAt(text, i) == text[i] = "." /\ text[i + 1] = "."

\* C31: when the expression finds the trailing background clause and the
\* instructions are not blank, the prompt cloneDesign sends is the extracted
\* prompt without the clause found, then a period exactly when that remainder
\* does not end with one, then " Additional instructions: ", then the
\* instructions as given, then the clause found in its original letter case;
\* the remainder is kept as it was, and no two periods in a row appear that
\* the remainder did not already have.
C31_ClonePromptComposition ==
    (/\ Composed("cloneDesign")
     /\ BackgroundInstructionMatch(request.extractedPrompt)
     /\ NonBlank(request.additionalInstructions))
        => LET n == Len(request.extractedPrompt)
               found == SubSeq(request.extractedPrompt, n - 1, n)
               remainder == SubSeq(request.extractedPrompt, 1, n - 2)
               period == IF remainder # <<>> /\ remainder[Len(remainder)] = "."
                         THEN <<>> ELSE <<".">>
           IN  /\ reply.prompt = remainder \o period \o <<" ", AdditionalMarker>>
                                    \o request.additionalInstructions.text \o found
               /\ SubSeq(reply.prompt, 1, n - 2) = remainder
               /\ reply.prompt[Len(reply.prompt)] = request.extractedPrompt[n]
               /\ \A i \in 1..(Len(reply.prompt) - 1) :
                     DoublePeriodAt(reply.prompt, i)
                        => i < n - 2 /\ DoublePeriodAt(remainder, i)

\* instructions were put before an upper-case clause of a prompt whose
\* remainder already ends with a period: no period was added
C31_Witness ==
    /\ Composed("cloneDesign")
    /\ request.extractedPrompt = <<".", " ", BlackClauseUpper>>
    /\ request.additionalInstructions = Given(<<"x", " ">>)
    /\ reply.prompt = <<".", " ", AdditionalMarker, "x", " ", " ", BlackClauseUpper>>

(***************************************************************************)
(* C32: extractDesignPrompt returns no blank prompt                        *)
(***************************************************************************)
\* C32: whatever the response text, extractDesignPrompt either fails with
\* the parse-failure error or returns a prompt that is not empty and not
\* only whitespace, also when the final_prompt element is empty or holds
\* only whitespace.
C32_PromptNeverBlank ==
    (request.fn = "extractDesignPrompt" /\ reply # NoReply)
        => \/ reply.kind = "error" /\ reply.error = "ParseFailure"
           \/ reply.kind = "prompt" /\ ~Blank(reply.prompt)

(***************************************************************************)
(* C33: details generation is gated and leaves the pipeline alone          *)
(***************************************************************************)
\* the step issues a generateProductDetails call
DetailsIssued == detailsCall = "none" /\ detailsCall' # "none"

\* the step is a details request: its start, its success or its failure
DetailsStep == lastOp' \in {"handleGenerateDetails", "detailsCallback"}

\* C33: a generateProductDetails call is issued only in a state in which
\* resizedDesign has status Success, and no step of a details request (the
\* handler, the resolution, the rejection) changes clonedDesign,
\* removedBgDesign, resizedDesign or the mockup items.
C33_DetailsGatedAndFramed ==
    [][ /\ DetailsIssued => resizedDesign.status = SUCCESS
        /\ DetailsStep => UNCHANGED <<clonedDesign, removedBgDesign,
                                      resizedDesign, mockups>> ]_vars

\* the details have arrived while the run that produced the resized design
\* is still creating mockups
C33_Witness ==
    /\ lastOp = "detailsCallback"
    /\ productDetails = "details"
    /\ resizedDesign.status = SUCCESS
    /\ isLoading
    /\ \E i \in MockupIndexes : mockups[i].status = PENDING

\* a click on Generate while no image is uploaded
NoImageClick == lastOp' = "handleGenerateClick" /\ uploadedImage = NULL

\* processImageFile took its else branch: the file is not an image
BadFileStep == lastOp' = "processImageFile" /\ error' = ErrBadFile

\* C34: handleGenerateClick with no uploaded image sets the top-level error
\* and issues no collaborator call, and processImageFile with a file that is
\* not an image sets the top-level error; both leave uploadedImage,
\* clonedDesign, removedBgDesign, resizedDesign, the mockups and
\* productDetails unchanged.
C34_InvalidInputFramed ==
    [][ /\ NoImageClick
            => /\ error' \in {ErrNoKey, ErrNoImage}
               /\ geminiApiKey # "" => error' = ErrNoImage
               /\ UNCHANGED <<issued, callState, detailsCall>>
        /\ BadFileStep => error' = ErrBadFile
        /\ (NoImageClick \/ BadFileStep)
            => UNCHANGED <<uploadedImage, clonedDesign, removedBgDesign,
                           resizedDesign, mockups, productDetails>> ]_vars

\* C34 witness: a file that is not an image was refused while a design and
\* the product details of an earlier run were on display.
C34_Witness ==
    /\ lastOp = "processImageFile"
    /\ error = ErrBadFile
    /\ uploadedImage # NULL
    /\ resizedDesign.status = SUCCESS
    /\ productDetails = "details"

\* the other case of C34: Generate was clicked with a key and without an image
C34_WitnessNoImage ==
    /\ lastOp = "handleGenerateClick"
    /\ uploadedImage = NULL
    /\ geminiApiKey # ""
    /\ error = ErrNoImage

(***************************************************************************)
(* C35: the mode and the instructions argument                             *)
(***************************************************************************)
\* the calls that take the optional instructions argument
Instructed == {CLONE} \cup {MOCKUP(p) : p \in ProductIds}

\* the argument instructionsToPass as the services' optional parameter
\* additionalInstructions?: string receives it
Argument(v) ==
    IF v = "undefined" THEN Absent
    ELSE IF v = "" THEN Given(<<>>)
    ELSE Given(<<v>>)

\* extracted prompts without and with the trailing background clause
SamplePrompts == Texts({"x", ".", " ", BlackClause}, 2)

\* C35: a run started in cloner mode passes no instructions (undefined) to
\* cloneDesign and to every createMockup call, whatever the stored
\* instructions are, so that the clone prompt is the extracted prompt; a run
\* started in redesign mode passes the instructions stored at its start, the
\* same string, to cloneDesign and to every createMockup call.
C35_ModeGatesInstructions ==
    [][ /\ RunStarts =>
            /\ run'.mode = mode
            /\ mode = "redesign" => run'.instructionsToPass = additionalInstructions
        /\ InFlight => run'.mode = run.mode
        /\ \A c \in InstructedIssued :
              /\ run.mode = "cloner" =>
                    /\ passed'[c] = "undefined"
                    /\ \A p \in SamplePrompts :
                          ClonePrompt(p, Argument(passed'[c])) = p
              /\ run.mode = "redesign" =>
                    /\ passed'[c] = run.instructionsToPass
                    /\ passed'[c] # "undefined"
                    /\ passed'[c] = passed'[CLONE] ]_vars

\* C35 witness: a run started in cloner mode with instructions stored has
\* issued cloneDesign and its createMockup calls, all without instructions.
C35_Witness ==
    /\ isLoading
    /\ run.mode = "cloner"
    /\ additionalInstructions = "make it blue"
    /\ mode = "cloner"
    /\ run.selectedProducts # <<>>
    /\ passed[CLONE] = "undefined"
    /\ \A p \in Range(run.selectedProducts) :
          issued[MOCKUP(p)] > 0 /\ passed[MOCKUP(p)] = "undefined"

\* the other case of C35: a run started in redesign mode has given the stored
\* instructions to cloneDesign and to each of its createMockup calls
C35_WitnessRedesign ==
    /\ isLoading
    /\ run.mode = "redesign"
    /\ run.selectedProducts # <<>>
    /\ passed[CLONE] = "make it blue"
    /\ \A p \in Range(run.selectedProducts) :
          issued[MOCKUP(p)] > 0 /\ passed[MOCKUP(p)] = "make it blue"

(***************************************************************************)
(* C36: termination of a run                                               *)
(***************************************************************************)
Finished == ~isLoading /\ loadingMessage = ""

\* C36: provided every pending collaborator call is settled at some time,
\* every started run finishes: from any state with isLoading set, a state is
\* reached where isLoading is false and loadingMessage is empty.
C36_RunTerminates == isLoading ~> Finished

\* C36 witness: a run has finished on the success path, every mockup made.
C36_Witness ==
    /\ Finished
    /\ lastOp = "callback"
    /\ resizedDesign.status = SUCCESS
    /\ mockups # <<>>
    /\ \A i \in 1..Len(mockups) : mockups[i].status = SUCCESS

\* a run has finished on a failure path of the critical path
C36_WitnessFailed ==
    /\ Finished
    /\ lastOp = "callback"
    /\ error # NoError
    /\ \E c \in {ANALYZE, CLONE, REMOVEBG, RESIZE} : callState[c] = "err"

\* a run has finished with a failed mockup
C36_WitnessMockupFailed ==
    /\ Finished
    /\ lastOp = "callback"
    /\ resizedDesign.status = SUCCESS
    /\ \E i \in 1..Len(mockups) : mockups[i].status = FAILED

(***************************************************************************)
(* C37: one run at a time                                                  *)
(***************************************************************************)
\* handleGenerateClick got past its guards: the step begins a run
RunBegins == lastOp' = "handleGenerateClick" /\ isLoading'

CallPending(cs) == \E c \in Calls : cs[c] = "pending"

\* C37: at most one run is in flight.  A run begins only in a state where
\* isLoading is false, no run's closure is live and no collaborator call is
\* pending; a continuation of a run is taken only while isLoading is true and
\* leaves the run's closure as it is or ends the run; a collaborator call is
\* pending only while isLoading is true.
C37_SingleRunInFlight ==
    [][ /\ RunBegins =>
            /\ ~isLoading
            /\ ~run.active
            /\ ~CallPending(callState)
        /\ lastOp' = "callback" =>
            /\ isLoading
            /\ run.active
            /\ run' = run \/ (~isLoading' /\ ~run'.active /\ ~CallPending(callState'))
        /\ CallPending(callState') => isLoading' /\ run'.active ]_vars

\* C37 witness: a second run is in flight, begun after an earlier run had
\* produced its design, with a collaborator call pending.
C37_Witness ==
    /\ isLoading
    /\ run.active
    /\ run.resizedStatus = SUCCESS
    /\ lastOp = "callback"
    /\ callState[CLONE] = "pending"

=========================================================================
